---- MODULE Spec2Model ----
(***************************************************************************)
(* Model of the packet codec of wg-toolkit (wg-toolkit/src/net/packet.rs): *)
(* RawPacket (fixed buffer with a length cursor), Packet (footer offset    *)
(* and first request offset over a RawPacket), PacketConfig, and the two   *)
(* synchronisation functions Packet::sync_data (encode the footer) and     *)
(* Packet::sync_state (decode the footer).                                 *)
(*                                                                         *)
(* Representation.  A u8 is an integer 0..255, a u16 an integer 0..65535.  *)
(* A u32 is the pair << high, low >> of its two 16-bit halves (the model    *)
(* checker's integers stop short of 2^32).  A usize is an integer; a usize *)
(* subtraction that wraps around (overflow checks off) is represented by   *)
(* its negative difference d, which stands for 2^64 + d.                   *)
(*                                                                         *)
(* A panic ends the run of the program: the state in which the panic left  *)
(* the objects is recorded and no operation follows it.                    *)
(***************************************************************************)
EXTENDS Integers, Sequences, FiniteSets, TLC

\* ------------------------------------------------------------ constants

PACKET_MAX_LEN == 1472
PACKET_PREFIX_LEN == 4
PACKET_FLAGS_LEN == 2
PACKET_MIN_LEN == PACKET_PREFIX_LEN + PACKET_FLAGS_LEN
PACKET_MAX_FOOTER_LEN == 8 + 4 + 4 + 1 + 4 + 4 + 4

HAS_REQUESTS == 1
HAS_PIGGYBACKS == 2
HAS_ACKS == 4
ON_CHANNEL == 8
IS_RELIABLE == 16
IS_FRAGMENT == 32
HAS_SEQUENCE_NUMBER == 64
INDEXED_CHANNEL == 128
HAS_CHECKSUM == 256
CREATE_CHANNEL == 512
HAS_CUMULATIVE_ACK == 1024

\* ------------------------------------------------- integers of fixed width

RECURSIVE BitAnd(_, _)
\* a & b
BitAnd(a, b) ==
    IF a = 0 \/ b = 0 THEN 0
    ELSE (a % 2) * (b % 2) + 2 * BitAnd(a \div 2, b \div 2)

RECURSIVE BitOr(_, _)
\* a | b
BitOr(a, b) ==
    IF a = 0 THEN b
    ELSE IF b = 0 THEN a
    ELSE (IF a % 2 = 1 \/ b % 2 = 1 THEN 1 ELSE 0) + 2 * BitOr(a \div 2, b \div 2)

RECURSIVE BitXor(_, _)
\* a ^ b
BitXor(a, b) ==
    IF a = 0 THEN b
    ELSE IF b = 0 THEN a
    ELSE (IF a % 2 = b % 2 THEN 0 ELSE 1) + 2 * BitXor(a \div 2, b \div 2)

\* !a on a u16
BitNot16(a) == 65535 - a

\* x as u16, x as u8 (the casts of sync_data)
AsU16(x) == x % 65536
AsU8(x) == x % 256

\* The u32 of a number below 2^31, and the u32 operations the codec uses:
\* a == 0, a < b, a ^ b.
U32(x) == << x \div 65536, x % 65536 >>
IsZero32(a) == a = << 0, 0 >>
Less32(a, b) == a[1] < b[1] \/ (a[1] = b[1] /\ a[2] < b[2])
Xor32(a, b) == << BitXor(a[1], b[1]), BitXor(a[2], b[2]) >>

\* write_u16::<LE>, write_u32::<LE>, u16::to_le_bytes
LE16(x) == << x % 256, (x \div 256) % 256 >>
LE32(x) == LE16(x[2]) \o LE16(x[1])

\* read_u16::<LE>, read_u32::<LE>, u16::from_le_bytes on a byte sequence
FromLE16(b) == b[1] + 256 * b[2]
FromLE32(b) == << b[3] + 256 * b[4], b[1] + 256 * b[2] >>

\* ------------------------------------------------------------ RawPacket

\* The buffer `data: [u8; PACKET_MAX_LEN]` is kept as the sequence of its bytes
\* up to the last non-zero one: every byte beyond it is zero, as RawPacket::new
\* left it or as it was written.

\* data[i], for an offset 0 <= i < PACKET_MAX_LEN
ByteAt(data, i) == IF i < Len(data) THEN data[i + 1] ELSE 0

\* The bytes data[from .. from + n) as a sequence.
Slice(data, from, n) == [i \in 1..n |-> ByteAt(data, from + i - 1)]

RECURSIVE LastNonZero(_, _, _)
\* The index of the last non-zero byte of bytes[lo .. hi], 0 when there is none.
LastNonZero(bytes, lo, hi) ==
    IF lo > hi THEN 0
    ELSE IF lo = hi THEN (IF bytes[lo] # 0 THEN lo ELSE 0)
    ELSE LET mid == (lo + hi) \div 2
             right == LastNonZero(bytes, mid + 1, hi)
         IN  IF right # 0 THEN right ELSE LastNonZero(bytes, lo, mid)

\* A byte sequence without its trailing zeros.
Canon(bytes) == SubSeq(bytes, 1, LastNonZero(bytes, 1, Len(bytes)))

\* Writing a byte sequence through a slice or cursor that starts at off.
WriteAt(data, off, bytes) ==
    LET end == IF Len(data) > off + Len(bytes) THEN Len(data) ELSE off + Len(bytes)
    IN  Canon([i \in 1..end |->
                 IF i - 1 >= off /\ i - 1 < off + Len(bytes)
                 THEN bytes[i - off] ELSE ByteAt(data, i - 1)])

RawPacket_new == [data |-> << >>, len |-> PACKET_MIN_LEN]

\* Outcome of a RawPacket operation: the buffer it leaves, and whether it panicked.
RawOutcome(raw, panic) == [raw |-> raw, panic |-> panic]

RawPacket_set_len(raw, len) ==
    IF len < PACKET_MIN_LEN \/ len > PACKET_MAX_LEN
    THEN RawOutcome(raw, TRUE)
    ELSE RawOutcome([raw EXCEPT !.len = len], FALSE)

RawPacket_available_len(raw) == PACKET_MAX_LEN - raw.len

RawPacket_body_len(raw) == raw.len - PACKET_PREFIX_LEN

\* A reset that moves the length back and leaves the prefix and flags.
RawPacket_reset_len_only(raw) == [raw EXCEPT !.len = PACKET_MIN_LEN]

RawPacket_reset(raw) ==
    [data |-> WriteAt(raw.data, 0, [i \in 1..PACKET_MIN_LEN |-> 0]),
     len |-> PACKET_MIN_LEN]

\* grow(len), the returned slice left as it is.
RawPacket_grow(raw, len) ==
    IF RawPacket_available_len(raw) < len
    THEN RawOutcome(raw, TRUE)
    ELSE RawOutcome([raw EXCEPT !.len = raw.len + len], FALSE)

\* grow, then the caller's write of `bytes` (Len(bytes) = the grown length)
\* into the returned slice.
RawPacket_grow_write(raw, bytes) ==
    IF RawPacket_available_len(raw) < Len(bytes)
    THEN RawOutcome(raw, TRUE)
    ELSE RawOutcome([data |-> WriteAt(raw.data, raw.len, bytes),
                     len |-> raw.len + Len(bytes)], FALSE)

\* A shrink that clears the bytes it frees.
RawPacket_shrink_clearing(raw, n, debug) ==
    IF raw.len < n \/ raw.len - n < PACKET_MIN_LEN
    THEN [raw |-> raw, panic |-> TRUE, bytes |-> << >>]
    ELSE [raw |-> [data |-> Canon(WriteAt(raw.data, raw.len - n, [i \in 1..n |-> 0])),
                   len |-> raw.len - n],
          panic |-> FALSE, bytes |-> Slice(raw.data, raw.len - n, n)]

\* shrink(n).  `debug` is the build profile (overflow checks on): with it the
\* subtraction self.len - len panics when it underflows; without it the
\* difference wraps, the assertion passes, self.len is left wrapped and the
\* slice expression panics.
RawPacket_shrink(raw, n, debug) ==
    IF raw.len < n
    THEN IF debug
         THEN [raw |-> raw, panic |-> TRUE, bytes |-> << >>]
         ELSE [raw |-> [raw EXCEPT !.len = raw.len - n], panic |-> TRUE, bytes |-> << >>]
    ELSE IF raw.len - n < PACKET_MIN_LEN
    THEN [raw |-> raw, panic |-> TRUE, bytes |-> << >>]
    ELSE [raw |-> [raw EXCEPT !.len = raw.len - n], panic |-> FALSE,
          bytes |-> Slice(raw.data, raw.len - n, n)]

read_prefix(raw) == FromLE32(Slice(raw.data, 0, PACKET_PREFIX_LEN))

write_prefix(raw, prefix) == [raw EXCEPT !.data = WriteAt(raw.data, 0, LE32(prefix))]

read_flags(raw) == FromLE16(Slice(raw.data, PACKET_PREFIX_LEN, PACKET_FLAGS_LEN))

write_flags(raw, flags) ==
    [raw EXCEPT !.data = WriteAt(raw.data, PACKET_PREFIX_LEN, LE16(flags))]

RECURSIVE XorWords(_, _, _)
\* The XOR of the `n` little-endian u32 words of data[pos .. pos + 4 * n).
\* The loop of calc_checksum folds them one after the other into a checksum
\* that starts at 0; XOR being associative with unit 0, they are folded here
\* by halves.
XorWords(data, pos, n) ==
    IF n = 0 THEN U32(0)
    ELSE IF n = 1 THEN FromLE32(Slice(data, pos, 4))
    ELSE Xor32(XorWords(data, pos, n \div 2),
                XorWords(data, pos + 4 * (n \div 2), n - (n \div 2)))

\* A checksum that leaves the last complete word out.
ChecksumFrom_without_last_word(data, pos, end) ==
    XorWords(data, pos, IF end - pos >= 8 THEN (end - pos) \div 4 - 1 ELSE 0)

\* calc_checksum over the bytes [pos, end) of `data` (a byte sequence, the
\* first at offset 0): the read of a u32 fails on fewer than 4 bytes, which
\* ends the loop, so only the complete words count.
ChecksumFrom(data, pos, end) ==
    XorWords(data, pos, IF end > pos THEN (end - pos) \div 4 ELSE 0)

\* calc_checksum(Cursor::new(raw.body_data()))
calc_checksum(raw) == ChecksumFrom(raw.data, PACKET_PREFIX_LEN, raw.len)

\* --------------------------------------------------------- PacketConfig

\* Option<T>: None is the empty sequence, Some(x) the sequence of x alone.
None == << >>
Some(x) == << x >>

PacketConfig_new ==
    [sequence_num |-> U32(0), sequence_first_num |-> U32(0), sequence_last_num |-> U32(0),
     reliable |-> FALSE, cumulative_ack |-> U32(0), single_acks |-> << >>,
     on_channel |-> FALSE, has_checksum |-> FALSE]

\* Outcome of a PacketConfig setter: the config it leaves, and whether it panicked.
ConfigOutcome(config, panic) == [config |-> config, panic |-> panic]

set_sequence_num(config, num) == [config EXCEPT !.sequence_num = num]

sequence_range(config) ==
    IF Less32(config.sequence_first_num, config.sequence_last_num)
    THEN Some(<< config.sequence_first_num, config.sequence_last_num >>)
    ELSE None

\* A set_sequence_range without its assertion.
set_sequence_range_unchecked(config, first, last) ==
    ConfigOutcome([config EXCEPT !.sequence_first_num = first,
                                 !.sequence_last_num = last], FALSE)

set_sequence_range(config, first, last) ==
    IF ~Less32(first, last)
    THEN ConfigOutcome(config, TRUE)
    ELSE ConfigOutcome([config EXCEPT !.sequence_first_num = first,
                                      !.sequence_last_num = last], FALSE)

clear_sequence_range(config) ==
    [config EXCEPT !.sequence_first_num = U32(0), !.sequence_last_num = U32(0)]

set_reliable(config, reliable) == [config EXCEPT !.reliable = reliable]

cumulative_ack(config) ==
    IF ~IsZero32(config.cumulative_ack) THEN Some(config.cumulative_ack) ELSE None

set_cumulative_ack(config, num) ==
    IF IsZero32(num)
    THEN ConfigOutcome(config, TRUE)
    ELSE ConfigOutcome([config EXCEPT !.cumulative_ack = num], FALSE)

clear_cumulative_ack(config) == [config EXCEPT !.cumulative_ack = U32(0)]

set_on_channel(config, on_channel) == [config EXCEPT !.on_channel = on_channel]

set_checksum(config, enabled) == [config EXCEPT !.has_checksum = enabled]

\* single_acks_mut().push_back(ack)
push_back_ack(config, ack) == [config EXCEPT !.single_acks = Append(@, ack)]

\* --------------------------------------------------------------- Packet

Packet_new ==
    [raw |-> RawPacket_new, footer_offset |-> PACKET_MIN_LEN, first_request_offset |-> 0]

\* Outcome of a Packet operation: the packet it leaves, and whether it panicked.
PacketOutcome(packet, panic) == [packet |-> packet, panic |-> panic]

\* A max_len() that keeps 33 bytes for the footer.
Packet_max_len_footer_33 == PACKET_MAX_LEN - PACKET_MIN_LEN - 33

Packet_max_len == PACKET_MAX_LEN - PACKET_MIN_LEN - PACKET_MAX_FOOTER_LEN

Packet_len(packet) == packet.footer_offset - PACKET_MIN_LEN

\* max_len() - len(); negative when the usize subtraction wraps.
Packet_available_len(packet) == Packet_max_len - Packet_len(packet)

\* data(): the body bytes [PACKET_MIN_LEN, footer_offset)
Packet_data(packet) ==
    Slice(packet.raw.data, PACKET_MIN_LEN, packet.footer_offset - PACKET_MIN_LEN)

footer_len(packet) == packet.raw.len - packet.footer_offset

footer_available_len(packet) == PACKET_MAX_FOOTER_LEN - footer_len(packet)

\* A grow that advances the length of the raw packet by len, trailer included.
Packet_grow_keeping_footer(packet, bytes, debug) ==
    LET len == Len(bytes)
        wraps == Packet_available_len(packet) < 0
    IN  IF wraps /\ debug THEN PacketOutcome(packet, TRUE)
        ELSE IF ~wraps /\ Packet_available_len(packet) < len THEN PacketOutcome(packet, TRUE)
        ELSE IF packet.raw.len + len > PACKET_MAX_LEN THEN PacketOutcome(packet, TRUE)
        ELSE PacketOutcome(
                [packet EXCEPT !.footer_offset = packet.footer_offset + len,
                               !.raw = [data |-> WriteAt(packet.raw.data, packet.footer_offset, bytes),
                                        len |-> packet.raw.len + len]],
                FALSE)

\* A grow that hands out the bytes behind the trailer.
Packet_grow_behind_footer(packet, bytes, debug) ==
    LET len == Len(bytes)
        wraps == Packet_available_len(packet) < 0
    IN  IF wraps /\ debug THEN PacketOutcome(packet, TRUE)
        ELSE IF ~wraps /\ Packet_available_len(packet) < len THEN PacketOutcome(packet, TRUE)
        ELSE IF packet.footer_offset + len > PACKET_MAX_LEN THEN PacketOutcome(packet, TRUE)
        ELSE PacketOutcome(
                [packet EXCEPT !.footer_offset = packet.footer_offset + len,
                               !.raw = [data |-> WriteAt(packet.raw.data, packet.raw.len, bytes),
                                        len |-> packet.footer_offset + len]],
                FALSE)

\* A grow that moves the footer offset and leaves the length of the raw
\* packet where it was.
Packet_grow_without_set_len(packet, bytes, debug) ==
    LET len == Len(bytes)
        wraps == Packet_available_len(packet) < 0
    IN  IF wraps /\ debug THEN PacketOutcome(packet, TRUE)
        ELSE IF ~wraps /\ Packet_available_len(packet) < len THEN PacketOutcome(packet, TRUE)
        ELSE IF packet.footer_offset + len > PACKET_MAX_LEN THEN PacketOutcome(packet, TRUE)
        ELSE PacketOutcome(
                [packet EXCEPT !.footer_offset = packet.footer_offset + len,
                               !.raw.data = WriteAt(@, packet.footer_offset, bytes)],
                FALSE)

\* grow(len), then the caller's write of `bytes` (Len(bytes) = len) into the
\* returned slice.  `debug` is the build profile (overflow checks on): when
\* max_len() - len() underflows it panics with the checks, and wraps to a
\* huge available length without them.
Packet_grow(packet, bytes, debug) ==
    LET len == Len(bytes)
        wraps == Packet_available_len(packet) < 0
    IN  IF wraps /\ debug THEN PacketOutcome(packet, TRUE)
        ELSE IF ~wraps /\ Packet_available_len(packet) < len THEN PacketOutcome(packet, TRUE)
        ELSE IF packet.footer_offset + len > PACKET_MAX_LEN THEN PacketOutcome(packet, TRUE)
        ELSE LET s == RawPacket_set_len(packet.raw, packet.footer_offset + len)
             IN  PacketOutcome(
                    [packet EXCEPT !.footer_offset = packet.footer_offset + len,
                                   !.raw = [data |-> WriteAt(s.raw.data, packet.footer_offset, bytes),
                                            len |-> s.raw.len]],
                    s.panic)

first_request_offset(packet) ==
    IF packet.first_request_offset >= PACKET_FLAGS_LEN
    THEN Some(packet.first_request_offset)
    ELSE None

\* A set_first_request_offset without its assertion.
set_first_request_offset_unchecked(packet, offset) ==
    PacketOutcome([packet EXCEPT !.first_request_offset = offset], FALSE)

set_first_request_offset(packet, offset) ==
    IF offset < PACKET_FLAGS_LEN
    THEN PacketOutcome(packet, TRUE)
    ELSE PacketOutcome([packet EXCEPT !.first_request_offset = offset], FALSE)

clear_first_request_offset(packet) == [packet EXCEPT !.first_request_offset = 0]

\* ------------------------------------------------------------ sync_data

\* The running state of sync_data: the packet, the config, the locals `flags`
\* and `count`, whether the ack loop has ended, and whether a grow has
\* panicked (nothing runs after a panic).

\* self.raw.grow_write(n).write(bytes)
sd_grow_write(st, bytes) ==
    IF st.panic THEN st
    ELSE LET g == RawPacket_grow_write(st.packet.raw, bytes)
         IN  [st EXCEPT !.packet.raw = g.raw, !.panic = g.panic]

\* flags |= flag
sd_flag(st, flag) == IF st.panic THEN st ELSE [st EXCEPT !.flags = BitOr(@, flag)]

\* A sync_data that starts from the flag word found in the flag slot.
sd_start_from_slot(packet, config) ==
    LET t == IF packet.footer_offset < packet.raw.len
             THEN RawPacket_set_len(packet.raw, packet.footer_offset)
             ELSE RawOutcome(packet.raw, FALSE)
    IN  [packet |-> [packet EXCEPT !.raw = t.raw], config |-> config,
         flags |-> read_flags(packet.raw), panic |-> t.panic, count |-> 0, done |-> FALSE]

\* A sync_data that appends its trailer behind the one the buffer holds.
sd_start_keeping_len(packet, config) ==
    [packet |-> packet, config |-> config, flags |-> 0,
     panic |-> FALSE, count |-> 0, done |-> FALSE]

\* if self.footer_offset < self.raw.len() { self.raw.set_len(self.footer_offset) }
\* let mut flags = 0u16;
sd_start(packet, config) ==
    LET t == IF packet.footer_offset < packet.raw.len
             THEN RawPacket_set_len(packet.raw, packet.footer_offset)
             ELSE RawOutcome(packet.raw, FALSE)
    IN  [packet |-> [packet EXCEPT !.raw = t.raw], config |-> config, flags |-> 0,
         panic |-> t.panic, count |-> 0, done |-> FALSE]

\* if config.reliable() { .. }  if config.on_channel() { .. }
sd_reliable(st) ==
    sd_flag(sd_flag(st, IF st.config.reliable THEN IS_RELIABLE ELSE 0),
            IF st.config.on_channel THEN ON_CHANNEL ELSE 0)

\* A sync_data that writes the last number of the range before the first.
sd_fragment_last_first(st) ==
    IF sequence_range(st.config) = None THEN st
    ELSE sd_grow_write(sd_flag(st, IS_FRAGMENT),
                       LE32(sequence_range(st.config)[1][2])
                       \o LE32(sequence_range(st.config)[1][1]))

\* if let Some((first_num, last_num)) = config.sequence_range() { .. }
sd_fragment(st) ==
    IF sequence_range(st.config) = None THEN st
    ELSE sd_grow_write(sd_flag(st, IS_FRAGMENT),
                       LE32(sequence_range(st.config)[1][1])
                       \o LE32(sequence_range(st.config)[1][2]))

\* if let Some(request_offset) = self.first_request_offset() { .. }
sd_requests(st) ==
    IF first_request_offset(st.packet) = None THEN st
    ELSE sd_grow_write(sd_flag(st, HAS_REQUESTS),
                       LE16(AsU16(first_request_offset(st.packet)[1])))

\* if config.reliable() || config.sequence_range().is_some() { .. }
sd_sequence(st) ==
    IF st.config.reliable \/ sequence_range(st.config) # None
    THEN sd_grow_write(sd_flag(st, HAS_SEQUENCE_NUMBER), LE32(st.config.sequence_num))
    ELSE st

\* let mut available_len = self.footer_available_len() - .. - .. - 1;
sd_available_len(st) ==
    footer_available_len(st.packet)
    - (IF cumulative_ack(st.config) # None THEN 4 ELSE 0)
    - (IF st.config.has_checksum THEN 4 ELSE 0)
    - 1

\* One iteration of `while let Some(ack) = config.single_acks_mut().pop_front()`:
\* the ack is popped, then either the loop breaks or the ack is written and
\* counted.  `done` tells that the loop has ended (no ack left, or break).
sd_ack_iter(st, available_len) ==
    IF st.done \/ st.panic THEN st
    ELSE IF st.config.single_acks = << >> THEN [st EXCEPT !.done = TRUE]
    ELSE IF available_len < 4
    THEN [st EXCEPT !.config.single_acks = Tail(@), !.done = TRUE]
    ELSE sd_grow_write([st EXCEPT !.config.single_acks = Tail(@), !.count = @ + 1],
                       LE32(Head(st.config.single_acks)))

RECURSIVE sd_ack_loop(_, _, _)
\* `n` iterations of the loop, run by halves.
sd_ack_loop(st, available_len, n) ==
    IF n = 0 \/ st.panic \/ st.done THEN st
    ELSE IF n = 1 THEN sd_ack_iter(st, available_len)
    ELSE sd_ack_loop(sd_ack_loop(st, available_len, n \div 2), available_len, n - (n \div 2))

\* debug_assert!(count != 0); self.raw.grow(1)[0] = count as _;
\* `debug` is the build profile (debug assertions on or off).
sd_ack_count(st, debug) ==
    IF st.panic THEN st
    ELSE IF debug /\ st.count = 0 THEN [st EXCEPT !.panic = TRUE]
    ELSE sd_grow_write(st, << AsU8(st.count) >>)

\* if !config.single_acks().is_empty() { .. }: the loop ends at the latest
\* with the pop that finds the queue empty.
sd_acks(st, debug) ==
    IF st.panic \/ st.config.single_acks = << >> THEN st
    ELSE sd_ack_count(sd_ack_loop(sd_flag(st, HAS_ACKS), sd_available_len(st),
                                  Len(st.config.single_acks) + 1),
                      debug)

\* if let Some(num) = config.cumulative_ack() { .. }
sd_cumulative_ack(st) ==
    IF cumulative_ack(st.config) = None THEN st
    ELSE sd_grow_write(sd_flag(st, HAS_CUMULATIVE_ACK), LE32(cumulative_ack(st.config)[1]))

\* if config.has_checksum() { flags |= flags::HAS_CHECKSUM; }
\* self.raw.write_flags(flags);
sd_write_flags(st) ==
    IF st.panic THEN st
    ELSE [st EXCEPT !.flags = IF st.config.has_checksum THEN BitOr(@, HAS_CHECKSUM) ELSE @,
                    !.packet.raw =
                        write_flags(@, IF st.config.has_checksum
                                       THEN BitOr(st.flags, HAS_CHECKSUM) ELSE st.flags)]

\* A checksum that starts behind the flag word.
sd_checksum_behind_flags(st) ==
    IF st.panic \/ ~st.config.has_checksum THEN st
    ELSE sd_grow_write(st, LE32(ChecksumFrom(st.packet.raw.data, PACKET_MIN_LEN,
                                             st.packet.raw.len)))

\* if config.has_checksum() { let checksum = calc_checksum(..); .. }
sd_checksum(st) ==
    IF st.panic \/ ~st.config.has_checksum THEN st
    ELSE sd_grow_write(st, LE32(calc_checksum(st.packet.raw)))

\* A sync_data that moves the footer offset behind the trailer it wrote.
sd_outcome_moving_footer(st) ==
    [packet |-> [st.packet EXCEPT !.footer_offset = st.packet.raw.len],
     config |-> st.config, panic |-> st.panic]

\* What sync_data leaves behind.
sd_outcome(st) == [packet |-> st.packet, config |-> st.config, panic |-> st.panic]

\* Packet::sync_data(&mut self, config)
sync_data(packet, config, debug) ==
    sd_outcome(sd_checksum(sd_write_flags(sd_cumulative_ack(sd_acks(
        sd_sequence(sd_requests(sd_fragment(sd_reliable(sd_start(packet, config))))),
        debug)))))

\* ----------------------------------------------------------- sync_state

KNOWN_FLAGS ==
    BitOr(HAS_CHECKSUM, BitOr(HAS_CUMULATIVE_ACK, BitOr(HAS_ACKS,
    BitOr(HAS_SEQUENCE_NUMBER, BitOr(HAS_REQUESTS, BitOr(IS_FRAGMENT,
    BitOr(ON_CHANNEL, IS_RELIABLE)))))))

\* Result<(), PacketSyncError>, or the panic that ended the call; `bits` is
\* the payload of UnknownFlags.  Pending: the call has not returned yet.
Ok == [kind |-> "Ok", bits |-> 0]
Corrupted == [kind |-> "Corrupted", bits |-> 0]
InvalidChecksum == [kind |-> "InvalidChecksum", bits |-> 0]
UnknownFlags(bits) == [kind |-> "UnknownFlags", bits |-> bits]
Panic == [kind |-> "panic", bits |-> 0]
Pending == [kind |-> "pending", bits |-> 0]

\* The running state of sync_state: the packet, the config, the arguments
\* `len`, the local `flags`, and the result once the call has returned or
\* panicked (nothing runs after it).

\* The test sync_state applies to each flag: `flags | flag != 0`, which Rust
\* parses as (flags | flag) != 0.
flag_test(flags, flag) == BitOr(flags, flag) # 0

\* self.raw.shrink(n) within sync_state: the state it leaves, and the bytes.
ss_shrink(st, n, debug) ==
    LET sh == RawPacket_shrink(st.packet.raw, n, debug)
    IN  [st |-> [st EXCEPT !.packet.raw = sh.raw,
                           !.result = IF sh.panic THEN Panic ELSE Pending],
         bytes |-> sh.bytes]

\* self.raw.set_len(len); let flags = self.raw.read_flags();
ss_start(packet, len, config) ==
    LET s == RawPacket_set_len(packet.raw, len)
    IN  [packet |-> [packet EXCEPT !.raw = s.raw], config |-> config, len |-> len,
         flags |-> read_flags(s.raw), result |-> IF s.panic THEN Panic ELSE Pending]

\* A sync_state that reports the whole flag word of a datagram with unknown bits.
ss_known_flags_whole_word(st) ==
    IF st.result # Pending THEN st
    ELSE IF BitAnd(st.flags, BitNot16(KNOWN_FLAGS)) # 0
    THEN [st EXCEPT !.result = UnknownFlags(st.flags)]
    ELSE st

\* A sync_state that clears the first request offset when it meets unknown bits.
ss_known_flags_clearing_offset(st) ==
    IF st.result # Pending THEN st
    ELSE IF BitAnd(st.flags, BitNot16(KNOWN_FLAGS)) # 0
    THEN [st EXCEPT !.result = UnknownFlags(BitAnd(st.flags, BitNot16(KNOWN_FLAGS))),
                    !.packet.first_request_offset = 0]
    ELSE st

\* if flags & !KNOWN_FLAGS != 0 { return Err(UnknownFlags(flags & !KNOWN_FLAGS)) }
ss_known_flags(st) ==
    IF st.result # Pending THEN st
    ELSE IF BitAnd(st.flags, BitNot16(KNOWN_FLAGS)) # 0
    THEN [st EXCEPT !.result = UnknownFlags(BitAnd(st.flags, BitNot16(KNOWN_FLAGS)))]
    ELSE st

\* The checksum read off the tail against the one computed over what is left.
ss_checksum_read(sh) ==
    IF sh.st.result # Pending THEN sh.st
    ELSE IF FromLE32(sh.bytes) # calc_checksum(sh.st.packet.raw)
    THEN [sh.st EXCEPT !.result = InvalidChecksum]
    ELSE sh.st

\* if flags | flags::HAS_CHECKSUM != 0 { .. }
ss_checksum(st, debug) ==
    IF st.result # Pending \/ ~flag_test(st.flags, HAS_CHECKSUM) THEN st
    ELSE ss_checksum_read(ss_shrink(st, 4, debug))

ss_cumulative_ack_read(sh) ==
    IF sh.st.result # Pending THEN sh.st
    ELSE IF IsZero32(FromLE32(sh.bytes)) THEN [sh.st EXCEPT !.result = Corrupted]
    ELSE [sh.st EXCEPT !.config = set_cumulative_ack(@, FromLE32(sh.bytes)).config]

\* if flags | flags::HAS_CUMULATIVE_ACK != 0 { .. }
ss_cumulative_ack(st, debug) ==
    IF st.result # Pending \/ ~flag_test(st.flags, HAS_CUMULATIVE_ACK) THEN st
    ELSE ss_cumulative_ack_read(ss_shrink(st, 4, debug))

\* config.single_acks_mut().push_back(self.raw.shrink_read(4).read_u32())
ss_ack_read(sh) ==
    IF sh.st.result # Pending THEN sh.st
    ELSE [sh.st EXCEPT !.config = push_back_ack(@, FromLE32(sh.bytes))]

RECURSIVE ss_ack_loop(_, _, _)
\* `n` iterations of `for _ in 0..count`, run by halves.
ss_ack_loop(st, n, debug) ==
    IF n = 0 \/ st.result # Pending THEN st
    ELSE IF n = 1 THEN ss_ack_read(ss_shrink(st, 4, debug))
    ELSE ss_ack_loop(ss_ack_loop(st, n \div 2, debug), n - (n \div 2), debug)

\* let count = self.raw.shrink(1)[0]; if count == 0 { return Err(Corrupted) }
ss_ack_count(sh, debug) ==
    IF sh.st.result # Pending THEN sh.st
    ELSE IF sh.bytes[1] = 0 THEN [sh.st EXCEPT !.result = Corrupted]
    ELSE ss_ack_loop(sh.st, sh.bytes[1], debug)

\* if flags | flags::HAS_ACKS != 0 { .. }
ss_acks(st, debug) ==
    IF st.result # Pending \/ ~flag_test(st.flags, HAS_ACKS) THEN st
    ELSE ss_ack_count(ss_shrink(st, 1, debug), debug)

ss_sequence_read(sh) ==
    IF sh.st.result # Pending THEN sh.st
    ELSE [sh.st EXCEPT !.config = set_sequence_num(@, FromLE32(sh.bytes))]

\* if flags | flags::HAS_SEQUENCE_NUMBER != 0 { .. }
ss_sequence(st, debug) ==
    IF st.result # Pending \/ ~flag_test(st.flags, HAS_SEQUENCE_NUMBER) THEN st
    ELSE ss_sequence_read(ss_shrink(st, 4, debug))

ss_requests_read(sh) ==
    IF sh.st.result # Pending THEN sh.st
    ELSE IF FromLE16(sh.bytes) < PACKET_FLAGS_LEN THEN [sh.st EXCEPT !.result = Corrupted]
    ELSE [sh.st EXCEPT !.packet = set_first_request_offset(@, FromLE16(sh.bytes)).packet]

\* if flags | flags::HAS_REQUESTS != 0 { .. }
ss_requests(st, debug) ==
    IF st.result # Pending \/ ~flag_test(st.flags, HAS_REQUESTS) THEN st
    ELSE ss_requests_read(ss_shrink(st, 2, debug))

ss_fragment_read(sh) ==
    IF sh.st.result # Pending THEN sh.st
    ELSE IF ~Less32(FromLE32(SubSeq(sh.bytes, 1, 4)), FromLE32(SubSeq(sh.bytes, 5, 8)))
    THEN [sh.st EXCEPT !.result = Corrupted]
    ELSE [sh.st EXCEPT !.config = set_sequence_range(@, FromLE32(SubSeq(sh.bytes, 1, 4)),
                                                     FromLE32(SubSeq(sh.bytes, 5, 8))).config]

\* if flags | flags::IS_FRAGMENT != 0 { .. }
ss_fragment(st, debug) ==
    IF st.result # Pending \/ ~flag_test(st.flags, IS_FRAGMENT) THEN st
    ELSE ss_fragment_read(ss_shrink(st, 8, debug))

\* config.set_reliable(flags | flags::IS_RELIABLE != 0);
\* config.set_on_channel(flags | flags::ON_CHANNEL != 0);
ss_reliable(st) ==
    IF st.result # Pending THEN st
    ELSE [st EXCEPT !.config = set_on_channel(set_reliable(@, flag_test(st.flags, IS_RELIABLE)),
                                              flag_test(st.flags, ON_CHANNEL))]

\* self.footer_offset = self.raw.len(); self.raw.set_len(len);
ss_footer_offset(st) ==
    IF st.result # Pending THEN st
    ELSE [st EXCEPT !.packet.footer_offset = st.packet.raw.len,
                    !.packet.raw = RawPacket_set_len(@, st.len).raw,
                    !.result = IF RawPacket_set_len(st.packet.raw, st.len).panic
                               THEN Panic ELSE Pending]

\* debug_assert!(self.footer_len() <= PACKET_MAX_FOOTER_LEN); Ok(())
ss_finish(st, debug) ==
    IF st.result # Pending THEN st
    ELSE IF debug /\ footer_len(st.packet) > PACKET_MAX_FOOTER_LEN
    THEN [st EXCEPT !.result = Panic]
    ELSE [st EXCEPT !.result = Ok]

\* What sync_state leaves behind.
ss_outcome(st) == [packet |-> st.packet, config |-> st.config, result |-> st.result]

\* Packet::sync_state(&mut self, len, config); `debug` tells the build profile
\* (debug assertions and overflow checks on, or both off).
sync_state(packet, len, config, debug) ==
    ss_outcome(ss_finish(ss_footer_offset(ss_reliable(ss_fragment(ss_requests(
        ss_sequence(ss_acks(ss_cumulative_ack(ss_checksum(
            ss_known_flags(ss_start(packet, len, config)),
        debug), debug), debug), debug), debug), debug))), debug))

\* ---------------------------------------------------- PackageFileReader

\* i64::MIN, the one i64 whose negation overflows; every other offset of the
\* model is small.
I64_MIN == -2147483647 - 1

\* PackageFileReader { inner, initial_len: compressed_size, remaining_len: compressed_size }
PackageFileReader_new(compressed_size) ==
    [initial_len |-> compressed_size, remaining_len |-> compressed_size]

\* io::Result of a reader call: "Ok" with the count or position returned, an
\* io::ErrorKind, "inner" for the error of the inner reader, or the "panic"
\* that ended the call.
ReaderResult(kind, value) == [kind |-> kind, value |-> value]

\* let len = buf.len().min(self.remaining_len as usize);
read_len(r, buf_len) == IF buf_len < r.remaining_len THEN buf_len ELSE r.remaining_len

\* read(buf): self.inner.read(&mut buf[..len]) returns an error (inner_err)
\* or the count inner_n, by the contract of Read at most len.
PackageFileReader_read(r, buf_len, inner_err, inner_n) ==
    IF inner_err THEN [reader |-> r, result |-> ReaderResult("inner", 0)]
    ELSE [reader |-> [r EXCEPT !.remaining_len = @ - inner_n],
          result |-> ReaderResult("Ok", inner_n)]

\* read_exact(buf): inner_err tells that self.inner.read_exact(buf) fails.
PackageFileReader_read_exact(r, buf_len, inner_err) ==
    IF r.remaining_len < buf_len THEN [reader |-> r, result |-> ReaderResult("UnexpectedEof", 0)]
    ELSE IF inner_err THEN [reader |-> r, result |-> ReaderResult("inner", 0)]
    ELSE [reader |-> [r EXCEPT !.remaining_len = @ - buf_len], result |-> ReaderResult("Ok", 0)]

\* stream_position()
stream_position(r) == r.initial_len - r.remaining_len

\* SeekFrom::Start(offset), SeekFrom::End(offset), SeekFrom::Current(offset)
SeekFrom(from, offset) == [from |-> from, offset |-> offset]

\* The match of seek: "Ok" with the delta, "InvalidInput" for an early
\* return, or the "panic" of the negation -offset of i64::MIN under overflow
\* checks (without them it wraps to i64::MIN, which no position is below).
seek_delta(r, pos, debug) ==
    IF pos.from = "Start"
    THEN IF r.initial_len < pos.offset THEN ReaderResult("InvalidInput", 0)
         ELSE ReaderResult("Ok", pos.offset - stream_position(r))
    ELSE IF pos.from = "End"
    THEN IF pos.offset > 0 \/ pos.offset < -r.initial_len THEN ReaderResult("InvalidInput", 0)
         ELSE ReaderResult("Ok", r.remaining_len + pos.offset)
    ELSE IF pos.offset > 0 /\ r.remaining_len < pos.offset THEN ReaderResult("InvalidInput", 0)
    ELSE IF pos.offset = I64_MIN
    THEN IF debug THEN ReaderResult("panic", 0) ELSE ReaderResult("Ok", pos.offset)
    ELSE IF pos.offset < 0 /\ stream_position(r) < -pos.offset
    THEN ReaderResult("InvalidInput", 0)
    ELSE ReaderResult("Ok", pos.offset)

\* seek(pos).  self.inner.seek(SeekFrom::Current(delta)) fails with
\* InvalidInput on i64::MIN, which leads before the start of the package
\* file, and otherwise when inner_err tells so.
PackageFileReader_seek(r, pos, inner_err, debug) ==
    LET delta == seek_delta(r, pos, debug)
    IN  IF delta.kind # "Ok" THEN [reader |-> r, result |-> delta]
        ELSE IF delta.value = I64_MIN
        THEN [reader |-> r, result |-> ReaderResult("InvalidInput", 0)]
        ELSE IF inner_err THEN [reader |-> r, result |-> ReaderResult("inner", 0)]
        ELSE [reader |-> [r EXCEPT !.remaining_len = @ - delta.value],
              result |-> ReaderResult("Ok", r.initial_len - (r.remaining_len - delta.value))]

\* ------------------------------------------------------------- inputs

\* Bounds of the model: the number of operations of a run.
MaxOps == 2
MaxCodecOps == 2

\* Bodies written through Packet::grow.
Bodies == { << 1 >>, << 1, 2, 3, 4 >>, [i \in 1..Packet_max_len |-> 0] }

\* Offsets given to set_first_request_offset.
Offsets == { 1, 2, 65538 }

\* A PacketConfig as PacketConfig::new and its setters build it.
ConfigOf(reliable, on_channel, checksum, range, cumulative, acks) ==
    [sequence_num |-> IF range = None THEN U32(7) ELSE U32(4),
     sequence_first_num |-> IF range = None THEN U32(0) ELSE range[1][1],
     sequence_last_num |-> IF range = None THEN U32(0) ELSE range[1][2],
     reliable |-> reliable, cumulative_ack |-> cumulative, single_acks |-> acks,
     on_channel |-> on_channel, has_checksum |-> checksum]

\* The fragment range of the inputs, and their cumulative acks.
Range35 == Some(<< U32(3), U32(5) >>)
NoCumulative == U32(0)
Cumulative == << 4386, 13124 >>

\* The queue of the acks 1, 2, .., n.
Acks(n) == [i \in 1..n |-> U32(i)]

\* The configs a run of Spec starts with.
StartConfigs ==
    { PacketConfig_new,
      ConfigOf(TRUE, FALSE, FALSE, None, NoCumulative, << >>),
      ConfigOf(FALSE, FALSE, FALSE, Range35, NoCumulative, << >>),
      ConfigOf(FALSE, FALSE, TRUE, None, Cumulative, << >>),
      ConfigOf(TRUE, TRUE, TRUE, Range35, Cumulative, Acks(1)),
      ConfigOf(TRUE, FALSE, TRUE, Range35, Cumulative, Acks(2)),
      ConfigOf(FALSE, FALSE, FALSE, None, NoCumulative, Acks(10)) }

\* The configs a run of CodecSpec starts with.
Configs ==
    { ConfigOf(r, FALSE, ck, rg, cu, acks) :
        r \in BOOLEAN, ck \in BOOLEAN,
        rg \in { None, Range35 }, cu \in { NoCumulative, Cumulative },
        acks \in { << >>, Acks(1), Acks(2) } }
    \cup { ConfigOf(r, TRUE, ck, rg, cu, << >>) :
             r \in BOOLEAN, ck \in BOOLEAN,
             rg \in { None, Range35 }, cu \in { NoCumulative, Cumulative } }
    \cup { ConfigOf(FALSE, FALSE, ck, None, cu, Acks(n)) :
             ck \in BOOLEAN, cu \in { NoCumulative, Cumulative }, n \in { 8, 10, 256 } }

\* The packets a run of CodecSpec starts with: Packet::new, a body written
\* through grow, a first request offset set.
BuiltPackets ==
    LET grown == { Packet_new } \cup { Packet_grow(Packet_new, b, TRUE).packet : b \in Bodies }
    IN  grown \cup { set_first_request_offset(p, 2).packet : p \in grown }
              \cup { set_first_request_offset(Packet_new, off).packet : off \in { 65536, 65538 } }

\* A datagram: prefix, flag word, body and trailer bytes.
Datagram(flags, body, trailer) == << 0, 0, 0, 0 >> \o LE16(flags) \o body \o trailer

\* A datagram followed by the checksum of its bytes from the flag word on.
WithChecksum(bytes) ==
    bytes \o LE32(ChecksumFrom(bytes, PACKET_PREFIX_LEN, Len(bytes)))

\* A trailer with every field in wire order but the checksum: range (3,5),
\* request offset 2, sequence number 4, one ack 11, count 1, cumulative ack 9.
FullTrailer ==
    LE32(U32(3)) \o LE32(U32(5)) \o LE16(2) \o LE32(U32(4)) \o LE32(U32(11)) \o << 1 >> \o LE32(U32(9))

\* The same with three acks 11, 12, 13 and the count 3.
LongTrailer ==
    LE32(U32(3)) \o LE32(U32(5)) \o LE16(2) \o LE32(U32(4))
    \o LE32(U32(11)) \o LE32(U32(12)) \o LE32(U32(13)) \o << 3 >> \o LE32(U32(9))

\* A body of n zero bytes.
Zeros(n) == [i \in 1..n |-> 0]

\* The datagrams received from the network.
Datagrams ==
    { Datagram(0, << >>, << >>),
      Datagram(0, << 1, 0, 0, 0 >>, << >>),
      Datagram(HAS_PIGGYBACKS, << >>, << >>),
      Datagram(INDEXED_CHANNEL, << 1, 2, 3, 4 >>, << >>),
      Datagram(CREATE_CHANNEL + IS_RELIABLE, << 1, 2, 3, 4 >>, << >>),
      Datagram(4096 + HAS_PIGGYBACKS + HAS_CHECKSUM, << 1, 2, 3, 4 >>, << 9, 9, 9, 9 >>),
      Datagram(IS_RELIABLE + HAS_SEQUENCE_NUMBER, << 1, 2, 3, 4 >>, LE32(U32(7))),
      WithChecksum(Datagram(HAS_CHECKSUM, << 1, 2, 3, 4 >>, << >>)),
      Datagram(HAS_CHECKSUM, << 1, 2, 3, 4 >>, << 9, 9, 9, 9 >>),
      WithChecksum(Datagram(HAS_CHECKSUM + HAS_CUMULATIVE_ACK, << 1, 2 >>, LE32(U32(0)))),
      WithChecksum(Datagram(0, << 1 >>, FullTrailer)),
      WithChecksum(Datagram(HAS_SEQUENCE_NUMBER + HAS_CHECKSUM, << 1 >>, FullTrailer)),
      WithChecksum(Datagram(KNOWN_FLAGS, << 1 >>, FullTrailer)),
      Datagram(0, Zeros(8), << >>),
      Datagram(HAS_CHECKSUM, << >>, << >>),
      WithChecksum(Datagram(KNOWN_FLAGS, << 1 >>, LongTrailer)) }

\* A datagram of PACKET_MAX_LEN bytes with every known flag: a body of zero
\* bytes, the 23 bytes of FullTrailer and the 4 of the checksum.
LargeDatagram ==
    WithChecksum(Datagram(KNOWN_FLAGS, Zeros(PACKET_MAX_LEN - PACKET_MIN_LEN - 27), FullTrailer))

\* -------------------------------------------------------- state machine

VARIABLES
    packet,   \* the Packet
    config,   \* the PacketConfig the caller holds and passes to the sync functions
    debug,    \* the build profile: debug assertions and overflow checks on (TRUE) or off
    hist,     \* the operations of the run: each with its input, its result and
              \* the packet and config it left
    reader    \* the PackageFileReader of the entry that is open, None without one

vars == << packet, config, debug, hist, reader >>

NoArg == [bytes |-> << >>, len |-> 0, fresh |-> FALSE]

Step(op, arg, result, p, c) ==
    [op |-> op, arg |-> arg, result |-> result, packet |-> p, config |-> c]

\* The last operation and the state before it.
Cur == hist[Len(hist)]
Prev == hist[Len(hist) - 1]

Running(max) == Len(hist) <= max /\ Cur.result.kind # "panic"

Record(op, arg, result, p, c) ==
    /\ packet' = p
    /\ config' = c
    /\ hist' = Append(hist, Step(op, arg, result, p, c))
    /\ UNCHANGED << debug, reader >>

Init ==
    /\ packet = Packet_new
    /\ config \in StartConfigs
    /\ debug \in BOOLEAN
    /\ reader = None
    /\ hist = << Step("new", NoArg, Ok, packet, config) >>

CodecInit ==
    /\ packet \in BuiltPackets
    /\ config \in Configs
    /\ debug \in BOOLEAN
    /\ reader = None
    /\ hist = << Step("new", NoArg, Ok, packet, config) >>

\* packet.grow(bytes.len()).copy_from_slice(bytes)
Grow(bytes) ==
    \E o \in { Packet_grow(packet, bytes, debug) } :
        Record("grow", [NoArg EXCEPT !.bytes = bytes], IF o.panic THEN Panic ELSE Ok,
               o.packet, config)

SetFirstRequestOffset(offset) ==
    \E o \in { set_first_request_offset(packet, offset) } :
        Record("set_first_request_offset", [NoArg EXCEPT !.len = offset],
               IF o.panic THEN Panic ELSE Ok, o.packet, config)

ClearFirstRequestOffset ==
    Record("clear_first_request_offset", NoArg, Ok, clear_first_request_offset(packet), config)

\* packet.sync_data(&mut config)
SyncData ==
    \E o \in { sync_data(packet, config, debug) } :
        Record("sync_data", NoArg, IF o.panic THEN Panic ELSE Ok, o.packet, o.config)

\* packet.sync_state(packet.raw().len(), &mut c), c being the config in hand
\* or a fresh PacketConfig::new()
SyncState(fresh) ==
    \E o \in { sync_state(packet, packet.raw.len,
                          IF fresh THEN PacketConfig_new ELSE config, debug) } :
        Record("sync_state", [NoArg EXCEPT !.len = packet.raw.len, !.fresh = fresh],
               o.result, o.packet, o.config)

\* A datagram is received into packet.raw_mut().raw_data_mut() and decoded
\* with packet.sync_state(len, &mut config).
Receive(bytes) ==
    \E o \in { sync_state([packet EXCEPT !.raw.data = WriteAt(@, 0, bytes)], Len(bytes),
                          config, debug) } :
        Record("receive", [bytes |-> bytes, len |-> Len(bytes), fresh |-> FALSE],
               o.result, o.packet, o.config)

Next ==
    \/ \E bytes \in Bodies : Running(MaxOps) /\ Grow(bytes)
    \/ \E offset \in Offsets : Running(MaxOps) /\ SetFirstRequestOffset(offset)
    \/ Running(MaxOps) /\ ClearFirstRequestOffset
    \/ Running(MaxOps) /\ SyncData
    \/ \E fresh \in BOOLEAN : Running(MaxOps) /\ SyncState(fresh)
    \/ \E bytes \in Datagrams : Running(MaxOps) /\ Receive(bytes)

CodecNext ==
    \/ Running(MaxCodecOps) /\ SyncData
    \/ \E fresh \in BOOLEAN : Running(MaxCodecOps) /\ SyncState(fresh)

Spec == Init /\ [][Next]_vars

CodecSpec == CodecInit /\ [][CodecNext]_vars

\* ------------------------------------------------- the largest datagram

MaxLargeOps == 2

\* Runs in which the datagram received is the largest one, and the bodies
\* grown include one a byte longer than max_len().
LargeNext ==
    \/ \E bytes \in Bodies \cup { Zeros(Packet_max_len + 1) } : Running(MaxLargeOps) /\ Grow(bytes)
    \/ Running(MaxLargeOps) /\ SyncData
    \/ Running(MaxLargeOps) /\ Receive(LargeDatagram)

LargeSpec == Init /\ [][LargeNext]_vars

\* ------------------------------------------- a datagram changed in flight

MaxTamperOps == 3

\* Bodies of every length modulo 4, no byte of which is `b ^ 0xFF` of another.
TamperBodies == { [i \in 1..n |-> i] : n \in 1..4 }

TamperPackets == { Packet_grow(Packet_new, b, TRUE).packet : b \in TamperBodies }

\* Configs with the checksum, whose trailers are 4, 8, 9 and 13 bytes long,
\* and one without it.
TamperConfigs ==
    { ConfigOf(FALSE, FALSE, TRUE, None, cu, acks) :
        cu \in { NoCumulative, Cumulative }, acks \in { << >>, Acks(1) } }
    \cup { ConfigOf(FALSE, FALSE, FALSE, None, Cumulative, << >>) }

TamperInit ==
    /\ packet \in TamperPackets
    /\ config \in TamperConfigs
    /\ debug \in BOOLEAN
    /\ reader = None
    /\ hist = << Step("new", NoArg, Ok, packet, config) >>

\* One byte of the body of the datagram sync_data has produced is changed
\* before it is decoded: packet.raw_mut().raw_data_mut()[offset] ^= 0xFF
Tamper(offset) ==
    /\ Cur.op = "sync_data"
    /\ offset >= PACKET_MIN_LEN
    /\ offset < packet.footer_offset
    /\ Record("tamper", [NoArg EXCEPT !.len = offset], Ok,
              [packet EXCEPT !.raw.data =
                  WriteAt(@, offset, << BitXor(ByteAt(@, offset), 255) >>)],
              config)

TamperNext ==
    \/ Running(MaxTamperOps) /\ SyncData
    \/ \E offset \in PACKET_MIN_LEN..(PACKET_MIN_LEN + 3) : Running(MaxTamperOps) /\ Tamper(offset)
    \/ \E fresh \in BOOLEAN : Running(MaxTamperOps) /\ SyncState(fresh)

TamperSpec == TamperInit /\ [][TamperNext]_vars

\* ------------------------------------------------- the raw packet alone

MaxRawOps == 3

\* The raw packets a run of RawSpec starts with: RawPacket::new, and one with
\* a prefix, a flag word and 4 bytes written behind them.
RawPackets ==
    { RawPacket_new,
      RawPacket_grow_write(write_flags(write_prefix(RawPacket_new, << 258, 772 >>), KNOWN_FLAGS),
                           << 1, 2, 3, 4 >>).raw }

RawInit ==
    /\ packet \in { [Packet_new EXCEPT !.raw = r] : r \in RawPackets }
    /\ config = PacketConfig_new
    /\ debug \in BOOLEAN
    /\ reader = None
    /\ hist = << Step("new", NoArg, Ok, packet, config) >>

\* What a call on packet.raw_mut() leaves.
RawRecord(op, arg, o) ==
    Record(op, arg, IF o.panic THEN Panic ELSE Ok, [packet EXCEPT !.raw = o.raw], config)

RawSetLen(len) ==
    RawRecord("set_len", [NoArg EXCEPT !.len = len], RawPacket_set_len(packet.raw, len))

RawGrow(len) ==
    RawRecord("grow", [NoArg EXCEPT !.len = len], RawPacket_grow(packet.raw, len))

RawGrowWrite(bytes) ==
    RawRecord("grow_write", [NoArg EXCEPT !.bytes = bytes, !.len = Len(bytes)],
              RawPacket_grow_write(packet.raw, bytes))

\* The step of a shrink keeps, as its bytes, the slice that shrink returned.
RawShrink(len) ==
    \E o \in { RawPacket_shrink(packet.raw, len, debug) } :
        RawRecord("shrink", [NoArg EXCEPT !.len = len, !.bytes = o.bytes], o)

\* shrink_read(len) is Cursor::new(self.shrink(len))
RawShrinkRead(len) ==
    \E o \in { RawPacket_shrink(packet.raw, len, debug) } :
        RawRecord("shrink_read", [NoArg EXCEPT !.len = len, !.bytes = o.bytes], o)

RawReset ==
    RawRecord("reset", NoArg, RawOutcome(RawPacket_reset(packet.raw), FALSE))

RawNext ==
    \/ \E len \in { PACKET_MIN_LEN - 1, PACKET_MIN_LEN, PACKET_MIN_LEN + 4, 100,
                     PACKET_MAX_LEN, PACKET_MAX_LEN + 1 } :
          Running(MaxRawOps) /\ RawSetLen(len)
    \/ \E len \in { 1, PACKET_MAX_LEN - PACKET_MIN_LEN + 1 } : Running(MaxRawOps) /\ RawGrow(len)
    \/ Running(MaxRawOps) /\ RawGrowWrite(<< 9, 8 >>)
    \/ \E len \in { 1, PACKET_MIN_LEN + 1, 95 } : Running(MaxRawOps) /\ RawShrink(len)
    \/ Running(MaxRawOps) /\ RawShrinkRead(2)
    \/ Running(MaxRawOps) /\ RawReset

RawSpec == RawInit /\ [][RawNext]_vars

\* ------------------------------------------------- a packet used again

MaxReuseOps == 5

\* Runs in which a packet is built, finalized, reset through
\* packet.raw_mut().reset() (Packet has no reset of its own) and built again.
ReuseNext ==
    \/ Running(MaxReuseOps) /\ Grow(<< 1, 2, 3, 4 >>)
    \/ Running(MaxReuseOps) /\ SetFirstRequestOffset(2)
    \/ Running(MaxReuseOps) /\ SyncData
    \/ Running(MaxReuseOps) /\ RawReset

ReuseSpec == Init /\ [][ReuseNext]_vars

\* ------------------------------------------------- the config alone

MaxConfigOps == 2

\* What a call on the config leaves; `nums` are the u32 it was given.
ConfigRecord(op, nums, o) ==
    Record(op, [NoArg EXCEPT !.bytes = nums], IF o.panic THEN Panic ELSE Ok, packet, o.config)

\* The setters and clears of PacketConfig, on the numbers 0, 3, 9 and 65536.
ConfigNext ==
    \/ \E first, last \in { U32(0), U32(3), << 1, 0 >> } :
          /\ Running(MaxConfigOps)
          /\ ConfigRecord("set_sequence_range", << first, last >>,
                          set_sequence_range(config, first, last))
    \/ /\ Running(MaxConfigOps)
       /\ ConfigRecord("clear_sequence_range", << >>,
                       ConfigOutcome(clear_sequence_range(config), FALSE))
    \/ \E num \in { U32(0), U32(9) } :
          /\ Running(MaxConfigOps)
          /\ ConfigRecord("set_cumulative_ack", << num >>, set_cumulative_ack(config, num))
    \/ /\ Running(MaxConfigOps)
       /\ ConfigRecord("clear_cumulative_ack", << >>,
                       ConfigOutcome(clear_cumulative_ack(config), FALSE))
    \/ /\ Running(MaxConfigOps)
       /\ ConfigRecord("set_sequence_num", << U32(9) >>,
                       ConfigOutcome(set_sequence_num(config, U32(9)), FALSE))
    \/ \E b \in BOOLEAN :
          /\ Running(MaxConfigOps)
          /\ ConfigRecord("set_reliable", << >>, ConfigOutcome(set_reliable(config, b), FALSE))
    \/ \E b \in BOOLEAN :
          /\ Running(MaxConfigOps)
          /\ ConfigRecord("set_on_channel", << >>, ConfigOutcome(set_on_channel(config, b), FALSE))
    \/ \E b \in BOOLEAN :
          /\ Running(MaxConfigOps)
          /\ ConfigRecord("set_checksum", << >>, ConfigOutcome(set_checksum(config, b), FALSE))

ConfigSpec == Init /\ [][ConfigNext]_vars

\* ------------------------------------------------- a package entry read

MaxReaderOps == 2

\* PackageReader::read_by_index has opened an entry of 0, 1 or 4 bytes.
ReaderInit ==
    /\ packet = Packet_new
    /\ config = PacketConfig_new
    /\ debug \in BOOLEAN
    /\ reader \in { PackageFileReader_new(len) : len \in { 0, 1, 4 } }
    /\ hist = << [op |-> "read_by_index", arg |-> SeekFrom("", 0),
                  result |-> ReaderResult("Ok", 0), reader |-> reader] >>

\* What a call on the reader leaves; `arg` is the SeekFrom of a seek, and for
\* the reads a SeekFrom("", n) with the length n of the buffer.
ReaderRecord(op, arg, o) ==
    /\ reader' = o.reader
    /\ hist' = Append(hist, [op |-> op, arg |-> arg, result |-> o.result, reader |-> o.reader])
    /\ UNCHANGED << packet, config, debug >>

\* The calls on the reader, with buffers of 0, 1, 2 and 5 bytes, offsets
\* around the ends of the entries and i64::MIN, and an inner reader that
\* reads all, reads less or fails.
ReaderNext ==
    \/ \E buf_len \in { 0, 1, 2, 5 }, inner_err \in BOOLEAN :
          \E inner_n \in 0..read_len(reader, buf_len) :
              /\ Running(MaxReaderOps)
              /\ inner_err => inner_n = 0
              /\ ReaderRecord("read", SeekFrom("", buf_len),
                              PackageFileReader_read(reader, buf_len, inner_err, inner_n))
    \/ \E buf_len \in { 0, 1, 2, 5 }, inner_err \in BOOLEAN :
          /\ Running(MaxReaderOps)
          /\ ReaderRecord("read_exact", SeekFrom("", buf_len),
                          PackageFileReader_read_exact(reader, buf_len, inner_err))
    \/ \E from \in { "Start", "End", "Current" },
          offset \in { I64_MIN, -5, -4, -1, 0, 1, 3, 4, 5 }, inner_err \in BOOLEAN :
          /\ Running(MaxReaderOps)
          /\ from = "Start" => offset >= 0
          /\ ReaderRecord("seek", SeekFrom(from, offset),
                          PackageFileReader_seek(reader, SeekFrom(from, offset), inner_err, debug))
    \/ /\ Running(MaxReaderOps)
       /\ ReaderRecord("stream_position", SeekFrom("", 0),
                       [reader |-> reader,
                        result |-> ReaderResult("Ok", stream_position(reader))])

ReaderSpec == ReaderInit /\ [][ReaderNext]_vars

\* ------------------------------------------------------- the properties

\* The operations of a run are read off `hist`: Cur is the last operation
\* with the packet and config it left, Prev the state it started from.

\* flags & bit != 0
HasBit(flags, bit) == BitAnd(flags, bit) # 0

\* The bits of a flag word the codec knows, and the others.
KnownBits ==
    HAS_REQUESTS + HAS_ACKS + ON_CHANNEL + IS_RELIABLE + IS_FRAGMENT
    + HAS_SEQUENCE_NUMBER + HAS_CHECKSUM + HAS_CUMULATIVE_ACK
UnknownBits(flags) == flags - BitAnd(flags, KnownBits)

\* The last operation is a sync_data that completed.
Encoded == Len(hist) >= 2 /\ Cur.op = "sync_data" /\ Cur.result = Ok

\* No operation before the last one has failed: after an error the packet is
\* to be discarded or reset before it is used again.
NoEarlierError == \A i \in 1..(Len(hist) - 1) : hist[i].result = Ok

\* The last operation is a sync_state, on a received datagram or on the bytes
\* of the packet, given a length within the buffer.
Decoded ==
    /\ Len(hist) >= 2
    /\ Cur.op \in { "sync_state", "receive" }
    /\ Cur.arg.len >= PACKET_MIN_LEN
    /\ Cur.arg.len <= PACKET_MAX_LEN

\* The flag word of the datagram the last sync_state decoded (sync_state
\* writes no byte of the buffer), and the config it was given.
DecodedFlags == read_flags(Cur.packet.raw)
DecodedInto == IF Cur.arg.fresh THEN PacketConfig_new ELSE Prev.config

\* The last two operations are a sync_data that completed on a packet just
\* built, and a sync_state of the bytes it produced.
EncodedThenDecoded ==
    /\ Len(hist) >= 3
    /\ hist[Len(hist) - 2].op = "new"
    /\ Prev.op = "sync_data"
    /\ Prev.result = Ok
    /\ Cur.op = "sync_state"

\* The packet and config sync_data was given, in that case.
Source == hist[Len(hist) - 2]

\* The acks a sync_data has taken off a queue, given the queue it left.
WrittenAcks(before, after) == SubSeq(before, 1, Len(before) - Len(after))

\* The little-endian bytes of a sequence of u32.
AckBytes(acks) ==
    [i \in 1..(4 * Len(acks)) |-> LE32(acks[((i - 1) \div 4) + 1])[((i - 1) % 4) + 1]]

\* C1: Round trip.  When sync_data has completed on a body written through
\* grow with a config C, and sync_state then decodes the resulting bytes
\* into a fresh config C', the decode succeeds, the body bytes and the footer
\* offset are those of before, the first request offset is the same, and C'
\* has the sequence number (when reliable or fragment), the sequence range,
\* reliable, on_channel and the cumulative ack of C, and as single acks
\* exactly the acks that sync_data wrote.
C1_RoundTrip ==
    (EncodedThenDecoded /\ Cur.arg.fresh) =>
        /\ Cur.result = Ok
        /\ Packet_data(Cur.packet) = Packet_data(Source.packet)
        /\ Cur.packet.footer_offset = Source.packet.footer_offset
        /\ first_request_offset(Cur.packet) = first_request_offset(Source.packet)
        /\ (Source.config.reliable \/ sequence_range(Source.config) # None)
               => Cur.config.sequence_num = Source.config.sequence_num
        /\ sequence_range(Cur.config) = sequence_range(Source.config)
        /\ Cur.config.reliable = Source.config.reliable
        /\ Cur.config.on_channel = Source.config.on_channel
        /\ cumulative_ack(Cur.config) = cumulative_ack(Source.config)
        /\ Cur.config.single_acks
               = WrittenAcks(Source.config.single_acks, Prev.config.single_acks)

\* The size of the trailer fields whose bit is set in the flag word of the
\* decoded datagram, the count byte being the one in front of the cumulative
\* ack and checksum that are flagged.
FlaggedSize ==
    LET ck == IF HasBit(DecodedFlags, HAS_CHECKSUM) THEN 4 ELSE 0
        cu == IF HasBit(DecodedFlags, HAS_CUMULATIVE_ACK) THEN 4 ELSE 0
        count == ByteAt(Cur.packet.raw.data, Cur.arg.len - ck - cu - 1)
    IN  ck + cu
        + (IF HasBit(DecodedFlags, HAS_ACKS) THEN 4 * count + 1 ELSE 0)
        + (IF HasBit(DecodedFlags, HAS_SEQUENCE_NUMBER) THEN 4 ELSE 0)
        + (IF HasBit(DecodedFlags, HAS_REQUESTS) THEN 2 ELSE 0)
        + (IF HasBit(DecodedFlags, IS_FRAGMENT) THEN 8 ELSE 0)

\* C2: sync_state takes off the tail exactly the fields whose flag bit is
\* set: when it succeeds on a flag word of known bits, the footer offset is
\* the length minus the size of the flagged fields and raw.len is the length;
\* and a 6-byte datagram with flag word 0 decodes successfully to an empty
\* body and leaves a default config as it was.
C2_FlaggedFieldsOnly ==
    Decoded =>
        /\ (UnknownBits(DecodedFlags) = 0 /\ Cur.result = Ok)
               => /\ Cur.packet.footer_offset = Cur.arg.len - FlaggedSize
                  /\ Cur.packet.raw.len = Cur.arg.len
        /\ (Cur.arg.len = PACKET_MIN_LEN /\ DecodedFlags = 0 /\ DecodedInto = PacketConfig_new)
               => /\ Cur.result = Ok
                  /\ Packet_data(Cur.packet) = << >>
                  /\ Cur.config = PacketConfig_new

\* C3: after every successful sync_state, config.reliable() is true exactly
\* when IS_RELIABLE is set in the flag word of the datagram, and
\* config.on_channel() exactly when ON_CHANNEL is set.
C3_ReliableOnChannelFromBits ==
    (Decoded /\ Cur.result = Ok) =>
        /\ Cur.config.reliable = HasBit(DecodedFlags, IS_RELIABLE)
        /\ Cur.config.on_channel = HasBit(DecodedFlags, ON_CHANNEL)

\* C4: ack FIFO across the wire.  When sync_data has written every ack of a
\* queue a0 .. an into the trailer, and sync_state then decodes those bytes
\* into a config whose queue is empty, the queue it produces is a0 .. an from
\* front to back.
C4_AckOrderAcrossWire ==
    (/\ EncodedThenDecoded
     /\ Source.config.single_acks # << >>
     /\ Prev.config.single_acks = << >>
     /\ Cur.result = Ok)
        => Cur.config.single_acks = Source.config.single_acks

\* C5: trailer bound on encode.  After every sync_data that completes (on a
\* packet no failed decode has left behind), whatever the config, the number
\* of its queued single acks and the body, the trailer raw.len - footer_offset
\* is at most 33 bytes long.
C5_TrailerBound ==
    (Encoded /\ NoEarlierError) => footer_len(Cur.packet) <= 33

\* The size of the fields sync_data writes in front of the acks, the room the
\* acks have in a trailer of at most 33 bytes, and the number of acks the
\* budget lets it write.
BeforeAcksSize(p, c) ==
    (IF sequence_range(c) # None THEN 8 ELSE 0)
    + (IF first_request_offset(p) # None THEN 2 ELSE 0)
    + (IF c.reliable \/ sequence_range(c) # None THEN 4 ELSE 0)
AckRoom(p, c) ==
    33 - BeforeAcksSize(p, c)
    - (IF cumulative_ack(c) # None THEN 4 ELSE 0)
    - (IF c.has_checksum THEN 4 ELSE 0)
    - 1
AckBudget(p, c) ==
    LET fit == IF AckRoom(p, c) < 0 THEN 0 ELSE AckRoom(p, c) \div 4
    IN  IF Len(c.single_acks) < fit THEN Len(c.single_acks) ELSE fit

\* C6: ack budget.  When single_acks is not empty, sync_data (on a packet no
\* failed decode has left behind) writes the first k acks of the queue, k
\* being the smaller of the queue length and the number of 4-byte acks that
\* fit in the room left by the other fields, then k as the count byte; the
\* queue is left with the acks not written, in their order.
C6_AckBudget ==
    (Encoded /\ NoEarlierError /\ Prev.config.single_acks # << >>) =>
        LET k == AckBudget(Prev.packet, Prev.config)
            at == Cur.packet.footer_offset + BeforeAcksSize(Prev.packet, Prev.config)
        IN  /\ Cur.config.single_acks
                   = SubSeq(Prev.config.single_acks, k + 1, Len(Prev.config.single_acks))
            /\ Slice(Cur.packet.raw.data, at, 4 * k)
                   = AckBytes(SubSeq(Prev.config.single_acks, 1, k))
            /\ ByteAt(Cur.packet.raw.data, at + 4 * k) = k

\* C7: unknown-flag rejection and flag closure.  On a flag word with a bit
\* outside the known ones, sync_state returns UnknownFlags with exactly the
\* unknown bits, before anything of the trailer is examined: the length is
\* the given one, the offsets and the config are untouched.  And every
\* successful sync_state saw a flag word of known bits only.
C7_UnknownFlags ==
    Decoded =>
        /\ UnknownBits(DecodedFlags) # 0
               => /\ Cur.result = UnknownFlags(UnknownBits(DecodedFlags))
                  /\ Cur.packet.raw.len = Cur.arg.len
                  /\ Cur.packet.footer_offset = Prev.packet.footer_offset
                  /\ Cur.packet.first_request_offset = Prev.packet.first_request_offset
                  /\ Cur.config = DecodedInto
        /\ Cur.result = Ok => UnknownBits(DecodedFlags) = 0

\* A datagram with the bits 0x1000 and HAS_PIGGYBACKS next to HAS_CHECKSUM and
\* a checksum that does not match is rejected for its unknown bits.
C7_Witness ==
    /\ Decoded
    /\ Cur.op = "receive"
    /\ HasBit(DecodedFlags, HAS_CHECKSUM)
    /\ Cur.result = UnknownFlags(4096 + HAS_PIGGYBACKS)

\* The flag word of a packet and config, bit by bit.
ExpectedFlags(p, c) ==
    (IF sequence_range(c) # None THEN IS_FRAGMENT ELSE 0)
    + (IF first_request_offset(p) # None THEN HAS_REQUESTS ELSE 0)
    + (IF c.reliable \/ sequence_range(c) # None THEN HAS_SEQUENCE_NUMBER ELSE 0)
    + (IF c.single_acks # << >> THEN HAS_ACKS ELSE 0)
    + (IF ~IsZero32(c.cumulative_ack) THEN HAS_CUMULATIVE_ACK ELSE 0)
    + (IF c.reliable THEN IS_RELIABLE ELSE 0)
    + (IF c.on_channel THEN ON_CHANNEL ELSE 0)
    + (IF c.has_checksum THEN HAS_CHECKSUM ELSE 0)

\* C8: the flag word sync_data writes is the union of IS_FRAGMENT iff a
\* sequence range is present, HAS_REQUESTS iff a first request offset is set,
\* HAS_SEQUENCE_NUMBER iff reliable or a range is present, HAS_ACKS iff
\* single_acks was not empty, HAS_CUMULATIVE_ACK iff cumulative_ack is not
\* zero, IS_RELIABLE iff reliable, ON_CHANNEL iff on_channel, HAS_CHECKSUM iff
\* the checksum is enabled; no other bit is set, and no bit left in the flag
\* slot by an earlier sync or receive is carried over.
C8_FlagWord ==
    Encoded => read_flags(Cur.packet.raw) = ExpectedFlags(Prev.packet, Prev.config)

\* sync_data after a receive that left in the flag slot a bit the new flag
\* word does not have.
C8_Witness ==
    /\ Encoded
    /\ Prev.op = "receive"
    /\ BitAnd(read_flags(Prev.packet.raw), BitNot16(read_flags(Cur.packet.raw))) # 0
    /\ read_flags(Cur.packet.raw) # 0

\* The trailer of a packet and config, field by field, given the acks
\* written and the checksum.
ExpectedTrailer(p, c, written, checksum) ==
    (IF sequence_range(c) # None
     THEN LE32(c.sequence_first_num) \o LE32(c.sequence_last_num) ELSE << >>)
    \o (IF first_request_offset(p) # None THEN LE16(AsU16(p.first_request_offset)) ELSE << >>)
    \o (IF c.reliable \/ sequence_range(c) # None THEN LE32(c.sequence_num) ELSE << >>)
    \o (IF c.single_acks # << >> THEN AckBytes(written) \o << AsU8(Len(written)) >> ELSE << >>)
    \o (IF ~IsZero32(c.cumulative_ack) THEN LE32(c.cumulative_ack) ELSE << >>)
    \o (IF c.has_checksum THEN LE32(checksum) ELSE << >>)

\* The bytes [footer_offset, raw.len) of a packet.
Trailer(p) == Slice(p.raw.data, p.footer_offset, p.raw.len - p.footer_offset)

\* C9: trailer layout.  After sync_data (on a packet no failed decode has
\* left behind) the bytes [footer_offset, raw.len) are, in this order and
\* little-endian, the sequence range if present, the first request offset if
\* set (as a u16), the sequence number if reliable or a range is present, the
\* written acks in queue order and their count byte if acks were queued, the
\* cumulative ack if not zero, and the checksum of the bytes [4, raw.len - 4)
\* if enabled.  So reliable with sequence number 7 over a 4-byte body gives
\* flags 0x0050, trailer 07 00 00 00 and length 14, and the range (3, 5) with
\* sequence number 4 over a 1-byte body gives flags 0x0060, a 12-byte trailer
\* and length 19.
C9_TrailerLayout ==
    (Encoded /\ NoEarlierError) =>
        /\ Trailer(Cur.packet)
               = ExpectedTrailer(Prev.packet, Prev.config,
                                 WrittenAcks(Prev.config.single_acks, Cur.config.single_acks),
                                 ChecksumFrom(Cur.packet.raw.data, PACKET_PREFIX_LEN,
                                              Cur.packet.raw.len - 4))
        /\ (/\ Prev.config = ConfigOf(TRUE, FALSE, FALSE, None, NoCumulative, << >>)
            /\ Packet_data(Prev.packet) = << 1, 2, 3, 4 >>
            /\ first_request_offset(Prev.packet) = None)
               => /\ read_flags(Cur.packet.raw) = 80
                  /\ Trailer(Cur.packet) = << 7, 0, 0, 0 >>
                  /\ Cur.packet.raw.len = 14
        /\ (/\ Prev.config = ConfigOf(FALSE, FALSE, FALSE, Range35, NoCumulative, << >>)
            /\ Packet_data(Prev.packet) = << 1 >>
            /\ first_request_offset(Prev.packet) = None)
               => /\ read_flags(Cur.packet.raw) = 96
                  /\ Trailer(Cur.packet) = << 3, 0, 0, 0, 5, 0, 0, 0, 4, 0, 0, 0 >>
                  /\ Cur.packet.raw.len = 19

\* sync_data has written a trailer with every field: range, request offset,
\* sequence number, two acks and their count, cumulative ack, checksum.
C9_Witness ==
    /\ Encoded
    /\ NoEarlierError
    /\ sequence_range(Prev.config) # None
    /\ first_request_offset(Prev.packet) # None
    /\ Len(Prev.config.single_acks) = 2
    /\ ~IsZero32(Prev.config.cumulative_ack)
    /\ Prev.config.has_checksum
    /\ footer_len(Cur.packet) = 31

\* C10: sync_state returns InvalidChecksum exactly when the flag word has
\* only known bits, HAS_CHECKSUM is set, and the last 4 bytes of the datagram
\* differ from the checksum of the bytes [4, len - 4); a datagram without
\* HAS_CHECKSUM is never rejected with InvalidChecksum.
C10_InvalidChecksumIff ==
    Decoded =>
        (Cur.result = InvalidChecksum
            <=> /\ UnknownBits(DecodedFlags) = 0
                /\ HasBit(DecodedFlags, HAS_CHECKSUM)
                /\ Slice(Cur.packet.raw.data, Cur.arg.len - 4, 4)
                       # LE32(ChecksumFrom(Cur.packet.raw.data, PACKET_PREFIX_LEN,
                                           Cur.arg.len - 4)))

\* The last three operations: a sync_data that completed with the checksum
\* enabled (on a packet no failed decode has left behind), the change of one
\* byte of the body of the datagram it produced, and the sync_state of the
\* changed datagram.
TamperedThenDecoded ==
    /\ Len(hist) >= 4
    /\ hist[Len(hist) - 2].op = "sync_data"
    /\ hist[Len(hist) - 2].result = Ok
    /\ hist[Len(hist) - 3].config.has_checksum
    /\ \A i \in 1..(Len(hist) - 3) : hist[i].result = Ok
    /\ Prev.op = "tamper"
    /\ Cur.op = "sync_state"

\* The changed byte lies in one of the complete 4-byte words, counted from
\* offset 4, of the bytes in front of the checksum.
TamperedInCompleteWord ==
    Prev.arg.len < PACKET_PREFIX_LEN
                   + 4 * ((Prev.packet.raw.len - 4 - PACKET_PREFIX_LEN) \div 4)

\* C11: checksum soundness.  For every packet sync_data has produced with the
\* checksum enabled, whatever the body length and the trailer, changing any
\* single byte of the body [6, footer_offset) makes sync_state of the changed
\* datagram return InvalidChecksum.
C11_ChecksumSoundness ==
    TamperedThenDecoded => Cur.result = InvalidChecksum

\* C11, amended: changing a single byte of the body makes sync_state return
\* InvalidChecksum exactly when the byte lies in a complete 4-byte word of
\* the bytes [4, len - 4) the checksum is computed over; a byte in the
\* incomplete last word of that range is not covered and its change is not
\* reported as InvalidChecksum.
C11_CompleteWordsOnly ==
    TamperedThenDecoded => (Cur.result = InvalidChecksum <=> TamperedInCompleteWord)

\* A byte of the second word of a datagram with a 9-byte trailer was changed,
\* and the decode returned InvalidChecksum.
C11_Witness ==
    /\ TamperedThenDecoded
    /\ TamperedInCompleteWord
    /\ Prev.arg.len = 8
    /\ footer_len(Prev.packet) = 9
    /\ Cur.result = InvalidChecksum

\* Whether a field of the decoded datagram whose bit is set in the flag word
\* breaks its rule, the fields being laid out from the tail as the flag word
\* says: a cumulative ack of 0, an ack count of 0, a request offset below 2,
\* a fragment range whose first number is not below the last.
FlaggedFieldInvalid ==
    LET d == Cur.packet.raw.data
        ck == IF HasBit(DecodedFlags, HAS_CHECKSUM) THEN 4 ELSE 0
        cu == IF HasBit(DecodedFlags, HAS_CUMULATIVE_ACK) THEN 4 ELSE 0
        count == ByteAt(d, Cur.arg.len - ck - cu - 1)
        ak == IF HasBit(DecodedFlags, HAS_ACKS) THEN 4 * count + 1 ELSE 0
        sq == IF HasBit(DecodedFlags, HAS_SEQUENCE_NUMBER) THEN 4 ELSE 0
        rq == IF HasBit(DecodedFlags, HAS_REQUESTS) THEN 2 ELSE 0
        fr == Cur.arg.len - ck - cu - ak - sq - rq - 8
    IN  \/ HasBit(DecodedFlags, HAS_CUMULATIVE_ACK)
           /\ IsZero32(FromLE32(Slice(d, Cur.arg.len - ck - 4, 4)))
        \/ HasBit(DecodedFlags, HAS_ACKS) /\ count = 0
        \/ HasBit(DecodedFlags, HAS_REQUESTS)
           /\ FromLE16(Slice(d, Cur.arg.len - ck - cu - ak - sq - 2, 2)) < PACKET_FLAGS_LEN
        \/ HasBit(DecodedFlags, IS_FRAGMENT)
           /\ ~Less32(FromLE32(Slice(d, fr, 4)), FromLE32(Slice(d, fr + 4, 4)))

\* The checksum of the decoded datagram matches, when its flag word has one.
ChecksumMatches ==
    HasBit(DecodedFlags, HAS_CHECKSUM)
        => Slice(Cur.packet.raw.data, Cur.arg.len - 4, 4)
               = LE32(ChecksumFrom(Cur.packet.raw.data, PACKET_PREFIX_LEN, Cur.arg.len - 4))

\* C12: for a datagram whose flag word has only known bits, whose checksum
\* matches when it is flagged and whose flagged fields fit in it, sync_state
\* returns Corrupted exactly when a flagged field breaks its rule (cumulative
\* ack 0, ack count 0, request offset below 2, fragment first >= last); it is
\* never Corrupted because of the bytes of a field whose flag is clear.
C12_CorruptedIff ==
    (/\ Decoded
     /\ UnknownBits(DecodedFlags) = 0
     /\ ChecksumMatches
     /\ PACKET_MIN_LEN + FlaggedSize <= Cur.arg.len)
        => (Cur.result = Corrupted <=> FlaggedFieldInvalid)

\* C13: sync_state never aborts on received data.  For every length between
\* PACKET_MIN_LEN and PACKET_MAX_LEN and every content of the buffer it
\* returns Ok, Corrupted, InvalidChecksum or UnknownFlags; a datagram too
\* short to hold the fields its flag word announces is rejected with
\* Corrupted, not by a panic of RawPacket::shrink.
C13_NeverAborts ==
    Decoded =>
        /\ Cur.result.kind \in { "Ok", "Corrupted", "InvalidChecksum", "UnknownFlags" }
        /\ (/\ UnknownBits(DecodedFlags) = 0
            /\ Cur.arg.len < PACKET_MIN_LEN + FlaggedSize)
               => Cur.result = Corrupted

\* C14: decode postcondition.  After every sync_state that returns Ok, for
\* every received datagram (one with HAS_ACKS and a count byte above 1
\* included), the trailer raw.len - footer_offset is at most 33 bytes long.
C14_DecodedTrailerBound ==
    (Decoded /\ Cur.result = Ok) => footer_len(Cur.packet) <= 33

\* Every operation of the run has completed: none panicked, no sync_state
\* returned an error.
AllSucceeded == \A i \in 1..Len(hist) : hist[i].result = Ok

\* C15: in every state reached from Packet::new through grow,
\* set_first_request_offset, clear_first_request_offset, sync_data and
\* successful sync_state calls,
\* PACKET_MIN_LEN <= footer_offset <= raw.len <= PACKET_MAX_LEN.
C15_OffsetsOrdered ==
    AllSucceeded =>
        /\ PACKET_MIN_LEN <= packet.footer_offset
        /\ packet.footer_offset <= packet.raw.len
        /\ packet.raw.len <= PACKET_MAX_LEN

\* A datagram with a trailer was decoded successfully and a body was then
\* written behind its body through grow, over the trailer.
C15_Witness ==
    /\ AllSucceeded
    /\ Len(hist) = 3
    /\ Prev.op = "receive"
    /\ footer_len(Prev.packet) > 0
    /\ Cur.op = "grow"
    /\ packet.footer_offset = Prev.packet.footer_offset + Len(Cur.arg.bytes)
    /\ packet.raw.len = packet.footer_offset

\* C16: body length bound.  In every state reached through the operations of
\* Packet, the state after a successful sync_state of a received datagram of
\* any length up to PACKET_MAX_LEN included, Packet::len() is at most
\* Packet::max_len(), so that Packet::available_len() does not underflow.
C16_BodyLengthBound ==
    AllSucceeded =>
        /\ Packet_len(packet) <= Packet_max_len
        /\ Packet_available_len(packet) >= 0

\* The last operation is a call on the raw packet, and the raw packet it was
\* made on.
RawOps == { "set_len", "grow", "grow_write", "shrink", "shrink_read", "reset" }
RawCalled == Len(hist) >= 2 /\ Cur.op \in RawOps
RawBefore == Prev.packet.raw
RawAfter == Cur.packet.raw

\* C17: raw buffer length invariant.  After any sequence of RawPacket::new,
\* set_len, grow, shrink, grow_write, shrink_read and reset calls that do not
\* abort, 6 <= len <= 1472; and a shrink(n) with n greater than the current
\* len does not leave a wrapped-around length behind.
C17_RawLenInvariant ==
    /\ AllSucceeded => (PACKET_MIN_LEN <= packet.raw.len /\ packet.raw.len <= PACKET_MAX_LEN)
    /\ (RawCalled /\ Cur.op \in { "shrink", "shrink_read" } /\ Cur.arg.len > RawBefore.len)
           => (PACKET_MIN_LEN <= RawAfter.len /\ RawAfter.len <= PACKET_MAX_LEN)

\* C18: the operations of the raw buffer abort exactly on their stated
\* preconditions and change nothing when they abort: set_len(n) aborts iff
\* n < 6 or n > 1472, grow(n) iff available_len < n, shrink(n) iff
\* len - n < 6 (n > len included); in every aborting case len and the bytes
\* of the buffer are as before the call, and otherwise len becomes n, len + n
\* and len - n respectively.
C18_RawPreconditions ==
    RawCalled =>
        /\ Cur.op = "set_len"
               => /\ Cur.result = Panic
                      <=> (Cur.arg.len < PACKET_MIN_LEN \/ Cur.arg.len > PACKET_MAX_LEN)
                  /\ Cur.result = Ok => RawAfter.len = Cur.arg.len
        /\ Cur.op \in { "grow", "grow_write" }
               => /\ Cur.result = Panic <=> PACKET_MAX_LEN - RawBefore.len < Cur.arg.len
                  /\ Cur.result = Ok => RawAfter.len = RawBefore.len + Cur.arg.len
        /\ Cur.op \in { "shrink", "shrink_read" }
               => /\ Cur.result = Panic <=> RawBefore.len - Cur.arg.len < PACKET_MIN_LEN
                  /\ Cur.result = Ok => RawAfter.len = RawBefore.len - Cur.arg.len
        /\ Cur.result = Panic => RawAfter = RawBefore

\* C20: reset of the raw buffer.  From any state RawPacket::reset sets len to
\* PACKET_MIN_LEN and zeroes the bytes [0, PACKET_MIN_LEN), so that the
\* prefix and the flags read back as 0; and a reset that follows a reset
\* leaves the state the first one left.
C20_Reset ==
    (RawCalled /\ Cur.op = "reset") =>
        /\ RawAfter.len = PACKET_MIN_LEN
        /\ Slice(RawAfter.data, 0, PACKET_MIN_LEN) = Zeros(PACKET_MIN_LEN)
        /\ IsZero32(read_prefix(RawAfter))
        /\ read_flags(RawAfter) = 0
        /\ RawPacket_reset(RawAfter) = RawAfter
        /\ Prev.op = "reset" => RawAfter = RawBefore

\* A raw packet with a prefix, a flag word and a body was reset, and reset
\* again.
C20_Witness ==
    /\ Len(hist) = 3
    /\ hist[1].packet.raw.len > PACKET_MIN_LEN
    /\ ~IsZero32(read_prefix(hist[1].packet.raw))
    /\ read_flags(hist[1].packet.raw) # 0
    /\ Prev.op = "reset"
    /\ Cur.op = "reset"
    /\ Cur.packet.raw.len = PACKET_MIN_LEN

\* The packet with the prefix, the body bytes and the first request offset
\* of `p` and nothing behind the body: every byte from the footer offset on
\* is zero, the flag word is zero, and raw.len is the footer offset.
WithoutTrailer(p) ==
    [p EXCEPT !.raw = [data |-> WriteAt(Canon(Slice(p.raw.data, 0, p.footer_offset)),
                                        PACKET_PREFIX_LEN, LE16(0)),
                       len |-> p.footer_offset]]

\* The bytes of RawPacket::data()
RawData(raw) == Slice(raw.data, 0, raw.len)

\* C19: deterministic encode.  Two packets with the same prefix, body bytes
\* and first request offset, finalized by sync_data with equal configs, end
\* with the same bytes in data(), the same raw.len and the same leftover
\* config, whatever bytes, flag word or stale trailer either buffer held
\* behind the footer offset before the call: on a packet no failed decode has
\* left behind, sync_data does what it does on the packet with the same
\* prefix, body and first request offset and nothing behind the body.
C19_DeterministicEncode ==
    (Len(hist) >= 2 /\ Cur.op = "sync_data" /\ NoEarlierError) =>
        \E o \in { sync_data(WithoutTrailer(Prev.packet), Prev.config, debug) } :
            /\ o.panic = (Cur.result = Panic)
            /\ ~o.panic =>
                  /\ RawData(Cur.packet.raw) = RawData(o.packet.raw)
                  /\ Cur.packet.raw.len = o.packet.raw.len
                  /\ Cur.packet.footer_offset = o.packet.footer_offset
                  /\ Cur.config = o.config

\* sync_data has completed on a packet that held the flag word and the
\* trailer of a decoded datagram, and has written another trailer.
C19_Witness ==
    /\ Encoded
    /\ Prev.op = "receive"
    /\ Prev.result = Ok
    /\ footer_len(Prev.packet) > 0
    /\ read_flags(Prev.packet.raw) # read_flags(Cur.packet.raw)
    /\ Prev.packet.raw.len # Cur.packet.raw.len

\* C21: a Packet is reusable after reset.  Resetting a Packet that holds a
\* body and a trailer returns it to the state of an empty packet (raw.len and
\* footer_offset PACKET_MIN_LEN, Packet::len() and footer_len() 0,
\* first_request_offset() None, prefix and flags zero), so that a body grown
\* and finalized by sync_data afterwards gives the bytes it gives on a packet
\* from Packet::new.
C21_ReusableAfterReset ==
    /\ (Len(hist) >= 2 /\ Cur.op = "reset")
           => /\ packet.raw.len = PACKET_MIN_LEN
              /\ packet.footer_offset = PACKET_MIN_LEN
              /\ Packet_len(packet) = 0
              /\ footer_len(packet) = 0
              /\ first_request_offset(packet) = None
              /\ IsZero32(read_prefix(packet.raw))
              /\ read_flags(packet.raw) = 0
    /\ (/\ Len(hist) >= 4
        /\ hist[Len(hist) - 2].op = "reset"
        /\ Prev.op = "grow"
        /\ Cur.op = "sync_data"
        /\ AllSucceeded)
           => RawData(Cur.packet.raw)
                  = RawData(sync_data(Packet_grow(Packet_new, Prev.arg.bytes, debug).packet,
                                      Prev.config, debug).packet.raw)

\* The last operation is a grow on the packet Packet::new made.
GrownFromNew == Len(hist) = 2 /\ Cur.op = "grow"

C23_RequestOffsetSentinel ==
    /\ AllSucceeded
           => (packet.first_request_offset = 0
               \/ packet.first_request_offset >= PACKET_FLAGS_LEN)
    /\ first_request_offset(packet)
           = IF packet.first_request_offset >= 2
             THEN Some(packet.first_request_offset) ELSE None
    /\ (Len(hist) >= 2 /\ Cur.op = "set_first_request_offset")
           => /\ Cur.result = Panic <=> Cur.arg.len < 2
              /\ Cur.result = Panic => Cur.packet = Prev.packet
              /\ Cur.result = Ok => first_request_offset(packet) = Some(Cur.arg.len)
    /\ (Len(hist) >= 2 /\ Cur.op = "clear_first_request_offset")
           => first_request_offset(packet) = None

\* A datagram with the request offset 2 was decoded, and
\* set_first_request_offset(1) then aborted and left that offset.
C23_Witness ==
    /\ Len(hist) = 3
    /\ Prev.op = "receive"
    /\ Prev.result = Ok
    /\ Cur.op = "set_first_request_offset"
    /\ Cur.arg.len = 1
    /\ Cur.result = Panic
    /\ first_request_offset(packet) = Some(2)

\* C24: PacketConfig setter discipline.  After any sequence of setter and
\* clear calls that do not abort, (sequence_first_num, sequence_last_num) is
\* (0, 0) or has first < last; sequence_range() is Some((first, last))
\* exactly when first < last; set_sequence_range(first, last) aborts, leaving
\* the config as it was, exactly when first >= last; cumulative_ack() is
\* Some(n) exactly when the stored n is not 0; set_cumulative_ack(0) aborts
\* leaving the config as it was; the clear operations zero their fields.
C24_SetterDiscipline ==
    /\ AllSucceeded
           => \/ IsZero32(config.sequence_first_num) /\ IsZero32(config.sequence_last_num)
              \/ Less32(config.sequence_first_num, config.sequence_last_num)
    /\ sequence_range(config)
           = IF Less32(config.sequence_first_num, config.sequence_last_num)
             THEN Some(<< config.sequence_first_num, config.sequence_last_num >>) ELSE None
    /\ cumulative_ack(config)
           = IF config.cumulative_ack # << 0, 0 >> THEN Some(config.cumulative_ack) ELSE None
    /\ (Len(hist) >= 2 /\ Cur.op = "set_sequence_range")
           => /\ Cur.result = Panic <=> ~Less32(Cur.arg.bytes[1], Cur.arg.bytes[2])
              /\ Cur.result = Panic => config = Prev.config
              /\ Cur.result = Ok
                     => /\ sequence_range(config) = Some(Cur.arg.bytes)
                        /\ config = [Prev.config EXCEPT !.sequence_first_num = Cur.arg.bytes[1],
                                                        !.sequence_last_num = Cur.arg.bytes[2]]
    /\ (Len(hist) >= 2 /\ Cur.op = "set_cumulative_ack")
           => /\ Cur.result = Panic <=> Cur.arg.bytes[1] = << 0, 0 >>
              /\ Cur.result = Panic => config = Prev.config
              /\ Cur.result = Ok
                     => /\ cumulative_ack(config) = Some(Cur.arg.bytes[1])
                        /\ config = [Prev.config EXCEPT !.cumulative_ack = Cur.arg.bytes[1]]
    /\ (Len(hist) >= 2 /\ Cur.op = "clear_sequence_range")
           => /\ sequence_range(config) = None
              /\ config = [Prev.config EXCEPT !.sequence_first_num = << 0, 0 >>,
                                              !.sequence_last_num = << 0, 0 >>]
    /\ (Len(hist) >= 2 /\ Cur.op = "clear_cumulative_ack")
           => /\ cumulative_ack(config) = None
              /\ config = [Prev.config EXCEPT !.cumulative_ack = << 0, 0 >>]

\* set_sequence_range(65536, 3) aborted on a config that holds the range
\* (3, 65536), and left it.
C24_Witness ==
    /\ Len(hist) = 3
    /\ Prev.op = "set_sequence_range"
    /\ Prev.result = Ok
    /\ Cur.op = "set_sequence_range"
    /\ Cur.arg.bytes = << << 1, 0 >>, << 0, 3 >> >>
    /\ Cur.result = Panic
    /\ sequence_range(config) = Some(<< << 0, 3 >>, << 1, 0 >> >>)

\* The last operation is a Packet::grow; the packet it was called on and the
\* length it was given.
Grown == Len(hist) >= 2 /\ Cur.op = "grow"
GrownLen == Len(Cur.arg.bytes)

\* C25: Packet::grow(n) with n <= available_len() advances footer_offset by
\* exactly n and raw.len by exactly n, in every state of the packet, one that
\* carries an encoded or received trailer included; with n > available_len()
\* it aborts and changes neither offset.
C25_GrowAdvancesBoth ==
    Grown =>
        IF GrownLen <= Packet_available_len(Prev.packet)
        THEN /\ Cur.result = Ok
             /\ packet.footer_offset = Prev.packet.footer_offset + GrownLen
             /\ packet.raw.len = Prev.packet.raw.len + GrownLen
        ELSE /\ Cur.result = Panic
             /\ packet.footer_offset = Prev.packet.footer_offset
             /\ packet.raw.len = Prev.packet.raw.len

\* C25, amended: on a packet with len() <= max_len(), grow(n) with
\* n <= available_len() advances footer_offset by exactly n and sets raw.len
\* to the new footer_offset (an advance of n - footer_len(): of n only when
\* the packet carries no trailer), and with n > available_len() it aborts and
\* changes neither offset.  On a packet with len() > max_len(), where
\* available_len() underflows, it aborts for every n with overflow checks and
\* completes, with the same effect, exactly when footer_offset + n <= 1472
\* without them.
C25_GrowSetsLenToFooter ==
    Grown =>
        /\ Cur.result = Ok
               <=> IF Packet_len(Prev.packet) <= Packet_max_len
                   THEN GrownLen <= Packet_available_len(Prev.packet)
                   ELSE ~debug /\ Prev.packet.footer_offset + GrownLen <= PACKET_MAX_LEN
        /\ Cur.result = Ok
               => /\ packet.footer_offset = Prev.packet.footer_offset + GrownLen
                  /\ packet.raw.len = packet.footer_offset
        /\ Cur.result = Panic
               => /\ packet.footer_offset = Prev.packet.footer_offset
                  /\ packet.raw.len = Prev.packet.raw.len

\* A body was grown on a packet that carried a trailer: raw.len has not
\* advanced by the length grown.
C25_Witness ==
    /\ Grown
    /\ Prev.op = "sync_data"
    /\ footer_len(Prev.packet) > 0
    /\ Cur.result = Ok
    /\ packet.raw.len = Prev.packet.footer_offset + GrownLen
    /\ packet.raw.len # Prev.packet.raw.len + GrownLen

\* C26: growing the body discards any trailer.  Immediately after every
\* Packet::grow(n) that completes, raw.len = footer_offset (footer_len() is
\* 0), the region handed out is the bytes [old footer_offset,
\* old footer_offset + n), where the caller's bytes are found, and every byte
\* in front of the old footer_offset (prefix, flags and body) is as it was.
C26_GrowDiscardsTrailer ==
    (Grown /\ Cur.result = Ok) =>
        /\ packet.raw.len = packet.footer_offset
        /\ footer_len(packet) = 0
        /\ packet.footer_offset = Prev.packet.footer_offset + GrownLen
        /\ Slice(packet.raw.data, Prev.packet.footer_offset, GrownLen) = Cur.arg.bytes
        /\ Slice(packet.raw.data, 0, Prev.packet.footer_offset)
               = Slice(Prev.packet.raw.data, 0, Prev.packet.footer_offset)

\* Four bytes were grown over the trailer sync_data had written behind an
\* empty body.
C26_Witness ==
    /\ Grown
    /\ Cur.result = Ok
    /\ Prev.op = "sync_data"
    /\ footer_len(Prev.packet) >= 4
    /\ Cur.arg.bytes = << 1, 2, 3, 4 >>
    /\ Slice(packet.raw.data, PACKET_MIN_LEN, 4) = << 1, 2, 3, 4 >>
    /\ packet.raw.len = PACKET_MIN_LEN + 4

\* C27: the footer reserve always suffices.  For every packet whose body was
\* written through Packet::grow (Packet::len() <= max_len()) and every
\* PacketConfig, one with every optional field and any number of queued acks
\* included, sync_data completes without aborting in RawPacket::grow and
\* leaves raw.len <= PACKET_MAX_LEN.
C27_FooterReserveSuffices ==
    (/\ Len(hist) = 2
     /\ Cur.op = "sync_data"
     /\ Packet_len(Prev.packet) <= Packet_max_len)
        => /\ Cur.result = Ok
           /\ packet.raw.len <= PACKET_MAX_LEN

\* The count byte of the trailer the last sync_data wrote: the byte in front
\* of the cumulative ack and of the checksum, when the config had them.
CountByte ==
    ByteAt(Cur.packet.raw.data,
           Cur.packet.raw.len - 1
           - (IF Prev.config.has_checksum THEN 4 ELSE 0)
           - (IF cumulative_ack(Prev.config) # None THEN 4 ELSE 0))

\* C28: ack count byte validity.  Whenever sync_data sets HAS_ACKS (on a
\* packet no failed decode has left behind), the count byte it writes is the
\* number of acks it wrote in that trailer and lies between 1 and 255,
\* whatever the length of the queue, 256 or more included.
C28_AckCountByte ==
    (Encoded /\ NoEarlierError /\ Prev.config.single_acks # << >>)
        => /\ HasBit(read_flags(Cur.packet.raw), HAS_ACKS)
           /\ CountByte = Len(Prev.config.single_acks) - Len(Cur.config.single_acks)
           /\ CountByte >= 1
           /\ CountByte <= 255

\* The two bytes sync_data wrote for the request offset: they follow the
\* fragment range, when there is one, at the start of the trailer.
RequestOffsetWritten ==
    FromLE16(Slice(Cur.packet.raw.data,
                   Cur.packet.footer_offset
                   + (IF sequence_range(Prev.config) # None THEN 8 ELSE 0), 2))

\* C29: request offset on the wire.  Whenever sync_data, on a packet no
\* failed decode has left behind and whose first request offset is set,
\* completes, the flag word has HAS_REQUESTS and the 2-byte value written is
\* the offset that set_first_request_offset was given and is at least
\* PACKET_FLAGS_LEN, for every offset set_first_request_offset accepts, those
\* of 65536 and above included.
C29_RequestOffsetOnWire ==
    (Encoded /\ NoEarlierError /\ first_request_offset(Prev.packet) # None)
        => /\ HasBit(read_flags(Cur.packet.raw), HAS_REQUESTS)
           /\ RequestOffsetWritten = first_request_offset(Prev.packet)[1]
           /\ RequestOffsetWritten >= PACKET_FLAGS_LEN

\* The number of acks a sync_data took off the queue, and the size of the
\* fields it then wrote behind the body.
AcksRemoved == Len(Prev.config.single_acks) - Len(Cur.config.single_acks)
NewFieldsSize ==
    BeforeAcksSize(Prev.packet, Prev.config)
    + (IF Prev.config.single_acks # << >> THEN 4 * AcksRemoved + 1 ELSE 0)
    + (IF cumulative_ack(Prev.config) # None THEN 4 ELSE 0)
    + (IF Prev.config.has_checksum THEN 4 ELSE 0)

\* C30: sync_data frame.  A sync_data that completes, on a packet no failed
\* decode has left behind, leaves footer_offset, first_request_offset, the
\* prefix bytes [0, 4) and the body bytes [6, footer_offset) as they were; of
\* the config it changes single_acks only, and that by removing acks from
\* its front; and raw.len afterwards is footer_offset plus the size of the
\* fields it wrote, whatever trailer was behind footer_offset before.
C30_SyncDataFrame ==
    (Encoded /\ NoEarlierError) =>
        /\ Cur.packet.footer_offset = Prev.packet.footer_offset
        /\ Cur.packet.first_request_offset = Prev.packet.first_request_offset
        /\ Slice(Cur.packet.raw.data, 0, PACKET_PREFIX_LEN)
               = Slice(Prev.packet.raw.data, 0, PACKET_PREFIX_LEN)
        /\ Packet_data(Cur.packet) = Packet_data(Prev.packet)
        /\ [Cur.config EXCEPT !.single_acks = Prev.config.single_acks] = Prev.config
        /\ AcksRemoved >= 0
        /\ Cur.config.single_acks
               = SubSeq(Prev.config.single_acks, AcksRemoved + 1, Len(Prev.config.single_acks))
        /\ Cur.packet.raw.len = Cur.packet.footer_offset + NewFieldsSize

\* A second sync_data, over the longer trailer that a first one wrote for a
\* queue of acks it emptied.
C30_Witness ==
    /\ Encoded
    /\ NoEarlierError
    /\ Prev.op = "sync_data"
    /\ Prev.packet.raw.len > Prev.packet.footer_offset
    /\ Cur.packet.raw.len < Prev.packet.raw.len
    /\ Cur.packet.raw.len = Cur.packet.footer_offset + NewFieldsSize

\* The shrinks, and the raw buffer two calls ago.
Shrinks == { "shrink", "shrink_read" }
RawBeforeLast == hist[Len(hist) - 2].packet.raw

\* C31: shrink is a rollback-safe peel.  No shrink changes a byte of the
\* buffer; a shrink(n) that returns gives the bytes [len - n, len) of the
\* buffer before the call, in forward order, and leaves len - n; a shrink(n)
\* followed by set_len(old len) gives back data() byte for byte; a grow(n)
\* followed by shrink(n) gives back len and returns the bytes of the grown
\* region, those written through grow_write when it was grown that way.
C31_ShrinkRollback ==
    /\ (RawCalled /\ Cur.op \in Shrinks)
           => /\ RawAfter.data = RawBefore.data
              /\ Cur.result = Ok
                     => /\ RawAfter.len = RawBefore.len - Cur.arg.len
                        /\ Cur.arg.bytes
                               = Slice(RawBefore.data, RawBefore.len - Cur.arg.len, Cur.arg.len)
    /\ (/\ Len(hist) >= 3 /\ Prev.op \in Shrinks /\ Prev.result = Ok
        /\ Cur.op = "set_len" /\ Cur.arg.len = RawBeforeLast.len)
           => /\ Cur.result = Ok
              /\ RawData(RawAfter) = RawData(RawBeforeLast)
    /\ (/\ Len(hist) >= 3 /\ Prev.op \in { "grow", "grow_write" } /\ Prev.result = Ok
        /\ Cur.op \in Shrinks /\ Cur.arg.len = Prev.arg.len)
           => /\ Cur.result = Ok
              /\ RawAfter.len = RawBeforeLast.len
              /\ Cur.arg.bytes = Slice(RawBefore.data, RawBeforeLast.len, Cur.arg.len)
              /\ Prev.op = "grow_write" => Cur.arg.bytes = Prev.arg.bytes

\* shrink(1) took the byte 4 off a 10-byte buffer and set_len(10) then gave
\* the 10 bytes back.
C31_Witness ==
    /\ Len(hist) >= 3
    /\ Prev.op = "shrink"
    /\ Prev.result = Ok
    /\ Prev.arg.bytes = << 4 >>
    /\ Cur.op = "set_len"
    /\ Cur.result = Ok
    /\ RawAfter.len = PACKET_MIN_LEN + 4
    /\ ByteAt(RawAfter.data, PACKET_MIN_LEN + 3) = 4

\* The XOR, starting from 0, of the complete little-endian u32 words of the
\* bytes [at, end) of `data`, taken from `at` in steps of 4, as its 4 bytes:
\* bit b of byte j is set when an odd number of the words have it set.
WordsIn(at, end) == IF end - at >= 4 THEN (end - at) \div 4 ELSE 0
XorBit(data, at, end, j, b) ==
    Cardinality({ k \in 0..(WordsIn(at, end) - 1) :
                    (ByteAt(data, at + 4 * k + j) \div (2 ^ b)) % 2 = 1 }) % 2
XorByte(data, at, end, j) ==
    XorBit(data, at, end, j, 0) + 2 * XorBit(data, at, end, j, 1)
    + 4 * XorBit(data, at, end, j, 2) + 8 * XorBit(data, at, end, j, 3)
    + 16 * XorBit(data, at, end, j, 4) + 32 * XorBit(data, at, end, j, 5)
    + 64 * XorBit(data, at, end, j, 6) + 128 * XorBit(data, at, end, j, 7)
XorFromZero(data, at, end) == [i \in 1..4 |-> XorByte(data, at, end, i - 1)]

\* C32: checksum value.  When the checksum is enabled, the last 4 bytes that
\* sync_data (on a packet no failed decode has left behind) writes are the
\* XOR, starting from 0, of the complete little-endian u32 words of the bytes
\* [4, L - 4) of the final datagram of length L, and those bytes hold the
\* final flag word, HAS_CHECKSUM set; a sync_state of the bytes as written
\* then never returns InvalidChecksum.
C32_ChecksumValue ==
    /\ (Encoded /\ NoEarlierError /\ Prev.config.has_checksum)
           => /\ HasBit(read_flags(Cur.packet.raw), HAS_CHECKSUM)
              /\ Slice(Cur.packet.raw.data, Cur.packet.raw.len - 4, 4)
                     = XorFromZero(Cur.packet.raw.data, PACKET_PREFIX_LEN,
                                   Cur.packet.raw.len - 4)
    /\ (/\ Len(hist) >= 3 /\ NoEarlierError
        /\ Prev.op = "sync_data" /\ hist[Len(hist) - 2].config.has_checksum
        /\ Cur.op = "sync_state")
           => Cur.result # InvalidChecksum

\* A datagram with a 1-byte body, a sequence number and a checksum that is
\* not zero was written, its last bytes behind the last complete word, and
\* decoded.
C32_Witness ==
    /\ Len(hist) >= 3
    /\ Prev.op = "sync_data"
    /\ hist[Len(hist) - 2].config.has_checksum
    /\ hist[Len(hist) - 2].config.reliable
    /\ Packet_data(Prev.packet) = << 1 >>
    /\ (Prev.packet.raw.len - 4 - PACKET_PREFIX_LEN) % 4 # 0
    /\ Slice(Prev.packet.raw.data, Prev.packet.raw.len - 4, 4) # << 0, 0, 0, 0 >>
    /\ Cur.op = "sync_state"
    /\ Cur.result = Ok

\* The acks that the last sync_data took off the queue are in the trailer
\* it wrote, in queue order, behind the fields that precede them.
RemovedAcksWritten ==
    Slice(Cur.packet.raw.data,
          Cur.packet.footer_offset + BeforeAcksSize(Prev.packet, Prev.config),
          4 * AcksRemoved)
        = AckBytes(WrittenAcks(Prev.config.single_acks, Cur.config.single_acks))

\* C33: repeated finalization drains the ack queue.  Every sync_data, on a
\* packet no failed decode has left behind and whose body is within max_len,
\* returns (its ack loop ends), leaves of the queue a suffix of what it was,
\* shorter by at least one ack when the queue was not empty, and has written
\* into its trailer every ack it removed: so that no ack leaves the queue
\* without being in a trailer, and a finite number of calls empties the queue.
C33_QueueDrains ==
    (/\ Len(hist) >= 2 /\ Cur.op = "sync_data" /\ NoEarlierError
     /\ Len(Packet_data(Prev.packet)) <= Packet_max_len)
        => /\ Cur.result = Ok
           /\ AcksRemoved >= 0
           /\ Cur.config.single_acks
                  = SubSeq(Prev.config.single_acks, AcksRemoved + 1,
                           Len(Prev.config.single_acks))
           /\ Prev.config.single_acks # << >> => AcksRemoved >= 1
           /\ RemovedAcksWritten

\* The acks the datagram of the last sync_state carries: those in front of
\* the count byte, which precedes the flagged cumulative ack and checksum;
\* none without HAS_ACKS.
CarriedAcks ==
    LET ck == IF HasBit(DecodedFlags, HAS_CHECKSUM) THEN 4 ELSE 0
        cu == IF HasBit(DecodedFlags, HAS_CUMULATIVE_ACK) THEN 4 ELSE 0
        at == Cur.arg.len - ck - cu - 1
    IN  IF HasBit(DecodedFlags, HAS_ACKS)
        THEN { FromLE32(Slice(Cur.packet.raw.data, at - 4 * k, 4)) :
                 k \in 1..ByteAt(Cur.packet.raw.data, at) }
        ELSE { }

\* C34: decoded state reflects the received flags, even on reused objects.
\* After a successful sync_state, into a fresh config or into a packet and a
\* config that hold values from before, cumulative_ack() is Some exactly when
\* HAS_CUMULATIVE_ACK is set in the flag word of the datagram,
\* sequence_range() exactly when IS_FRAGMENT is set, first_request_offset()
\* exactly when HAS_REQUESTS is set, and single_acks holds only acks that
\* the datagram carries.
C34_DecodedReflectsFlags ==
    (Decoded /\ Cur.result = Ok) =>
        /\ (cumulative_ack(Cur.config) # None) = HasBit(DecodedFlags, HAS_CUMULATIVE_ACK)
        /\ (sequence_range(Cur.config) # None) = HasBit(DecodedFlags, IS_FRAGMENT)
        /\ (first_request_offset(Cur.packet) # None) = HasBit(DecodedFlags, HAS_REQUESTS)
        /\ \A i \in 1..Len(Cur.config.single_acks) : Cur.config.single_acks[i] \in CarriedAcks

\* The buffer that the last sync_state was called on: the one of before, the
\* received datagram copied to its front when there was one.
DecodedBuffer ==
    IF Cur.op = "receive"
    THEN WriteAt(Prev.packet.raw.data, 0, Cur.arg.bytes)
    ELSE Prev.packet.raw.data

\* C35: frame of the UnknownFlags return.  When sync_state returns
\* UnknownFlags, the config, footer_offset, first_request_offset and every
\* byte of the buffer are those of before the call, and raw.len is the
\* length it was given.
C35_UnknownFlagsFrame ==
    (Decoded /\ Cur.result.kind = "UnknownFlags") =>
        /\ Cur.config = DecodedInto
        /\ Cur.packet.footer_offset = Prev.packet.footer_offset
        /\ Cur.packet.first_request_offset = Prev.packet.first_request_offset
        /\ Cur.packet.raw.data = DecodedBuffer
        /\ Cur.packet.raw.len = Cur.arg.len

\* A datagram with unknown bits was received into a packet whose first
\* request offset had been set to 2, and with a length other than the one
\* the buffer had.
C35_Witness ==
    /\ Decoded
    /\ Cur.op = "receive"
    /\ Cur.result.kind = "UnknownFlags"
    /\ Prev.op = "set_first_request_offset"
    /\ Cur.packet.first_request_offset = 2
    /\ Cur.packet.raw.len # Prev.packet.raw.len

\* The position a seek asks for is outside [0, initial_len] of the reader
\* it is called on; i64::MIN is below every position.
SeekOutside(r, pos) ==
    IF pos.from = "Start" THEN pos.offset > r.initial_len
    ELSE IF pos.offset = I64_MIN THEN TRUE
    ELSE IF pos.from = "End"
    THEN r.initial_len + pos.offset < 0 \/ pos.offset > 0
    ELSE stream_position(r) + pos.offset < 0
         \/ stream_position(r) + pos.offset > r.initial_len

\* C36: PackageFileReader stays inside its file.  After any sequence of
\* read, read_exact and seek calls, successful or failing, remaining_len is
\* at most initial_len and initial_len is the length of the entry; the
\* position a seek or stream_position reports is initial_len - remaining_len;
\* read returns at most the remaining_len of before; a read_exact that asks
\* for more than remaining_len fails with UnexpectedEof, and a seek to a
\* position outside [0, initial_len] fails with InvalidInput, both leaving
\* remaining_len as it was.
C36_ReaderStaysInside ==
    /\ reader.remaining_len >= 0
    /\ reader.remaining_len <= reader.initial_len
    /\ reader.initial_len = hist[1].reader.initial_len
    /\ Len(hist) >= 2 =>
        /\ (Cur.op \in { "seek", "stream_position" } /\ Cur.result.kind = "Ok")
               => Cur.result.value = reader.initial_len - reader.remaining_len
        /\ (Cur.op = "read" /\ Cur.result.kind = "Ok")
               => Cur.result.value <= Prev.reader.remaining_len
        /\ (Cur.op = "read_exact" /\ Cur.arg.offset > Prev.reader.remaining_len)
               => /\ Cur.result = ReaderResult("UnexpectedEof", 0)
                  /\ reader.remaining_len = Prev.reader.remaining_len
        /\ (Cur.op = "seek" /\ SeekOutside(Prev.reader, Cur.arg))
               => /\ Cur.result = ReaderResult("InvalidInput", 0)
                  /\ reader.remaining_len = Prev.reader.remaining_len

====
